---- MODULE Spec2Model ----
(***************************************************************************)
(* A model of the Ultra procedure composition and dispatch engine:         *)
(* Procedure (builder, compile, wrap), the middleware chain composers,     *)
(* the Ultra module builder (routes, use, derive, on, merge, build,        *)
(* start) and the two dispatch entry points (HTTP route handler and        *)
(* WebSocket message handler) with the response conversions and the        *)
(* clients' decoding of them.                                              *)
(***************************************************************************)
EXTENDS Integers, Sequences, FiniteSets, TLC

(***************************************************************************)
(* JavaScript values.  Every value is a record of one shape:               *)
(*   t     the kind of value (typeof, or the class for Error / Response)   *)
(*   s     the string payload (string content, JSON text of an object,     *)
(*         Error message, Response body)                                   *)
(*   n     the number payload (number, boolean as 0/1, error or response   *)
(*         status)                                                         *)
(*   name  Error name / Response statusText                                *)
(*   mark  the schemas that produced this value (a schema returns a new    *)
(*         value; the mark tells it from the raw one)                      *)
(***************************************************************************)
Val(t, s, n, name) == [t |-> t, s |-> s, n |-> n, name |-> name, mark |-> <<>>]

Undefined == Val("undefined", "", 0, "")
Null == Val("null", "", 0, "")
Str(s) == Val("string", s, 0, "")
Num(n) == Val("number", "", n, "")
Bool(b) == Val("boolean", "", IF b THEN 1 ELSE 0, "")
Obj(json) == Val("object", json, 0, "")
ErrorVal(message) == Val("Error", message, 0, "Error")
ResponseVal(body, status, statusText) == Val("Response", body, status, statusText)

UltraError(message, name, status) == Val("UltraError", message, status, name)
ValidationError(message) == UltraError(message, "ValidationError", 422)
UnauthorizedError == UltraError("Unauthorized", "UnauthorizedError", 401)

(* const name = value; body: the value is computed once. *)
Let(value, Body(_)) == Body(value)

(* The outcome of running a function: returned (ok) or thrown. *)
Returned(v) == [ok |-> TRUE, v |-> v]
Thrown(v) == [ok |-> FALSE, v |-> v]

(***************************************************************************)
(* Execution context: a record over a fixed key set, "absent" for a key    *)
(* the object does not have.                                               *)
(***************************************************************************)
CtxKeys == {"server", "request", "ws", "auth", "role"}
Absent == "absent"
EmptyCtx == [k \in CtxKeys |-> Absent]
HTTPContext == [EmptyCtx EXCEPT !["server"] = "srv", !["request"] = "req"]
WSContext == [EmptyCtx EXCEPT !["server"] = "srv", !["ws"] = "sock"]

(* Assign where a key the target has keeps its value. *)
AssignMissing(target, source) ==
  [k \in CtxKeys |-> IF target[k] # Absent THEN target[k] ELSE source[k]]

(* Object.assign(target, source): the keys source has override target's. *)
Assign(target, source) ==
  [k \in CtxKeys |-> IF source[k] # Absent THEN source[k] ELSE target[k]]

(* ProcedureOptions *)
Options(input, context) == [input |-> input, context |-> context]

(* One observed step of an invocation. *)
Event(ev, who, o) == [ev |-> ev, who |-> who, input |-> o.input, context |-> o.context]

(***************************************************************************)
(* Schemas and the validation adapter.                                     *)
(***************************************************************************)
None == "none"
Schemas == {"sAny", "sString"}

(* Whether the schema's validate reports no issues for the value. *)
SchemaAccepts(schema, v) == schema = "sAny" \/ v.t = "string"

(* validate(schema, value): the schema's output value, or ValidationError. *)
Validate(schema, v) ==
  IF SchemaAccepts(schema, v)
  THEN Returned([v EXCEPT !.mark = Append(@, schema)])
  ELSE Thrown(ValidationError("issues"))

(***************************************************************************)
(* Handler functions and middleware functions of the program under test.   *)
(***************************************************************************)
Handlers == {"echo", "answer", "boom"}

(* The handler function called with options. *)
RunHandler(h, o) ==
  [tr |-> <<Event("handler", h, o)>>,
   out |-> CASE h = "echo" -> Returned(o.input)
             [] h = "answer" -> Returned(Num(42))
             [] h = "notFound" -> Returned(ResponseVal("Not Found", 404, ""))
             [] OTHER -> Thrown(ErrorVal("boom"))]

(* How a middleware function uses next():                                  *)
(*   once   calls next() once, awaits it and returns its value             *)
(*   skip   returns its own value without calling next()                   *)
(*   twice  awaits next() two times and returns the second value           *)
MW == {"m1", "m2", "m3", "guard", "retry"}
MwKind(mw) ==
  CASE mw = "guard" -> "skip"
    [] mw = "retry" -> "twice"
    [] OTHER -> "once"

(***************************************************************************)
(* Procedure                                                               *)
(***************************************************************************)
NewProcedure ==
  [inputSchema |-> None, outputSchema |-> None, handlerFunction |-> None,
   middlewares |-> <<>>, httpOptions |-> [enabled |-> FALSE, method |-> None]]

(* Set.add on an insertion-ordered Set held as a sequence. *)
SetAdd(seq, x) == IF \E i \in 1..Len(seq) : seq[i] = x THEN seq ELSE Append(seq, x)

RECURSIVE SetAddAll(_, _)
SetAddAll(seq, xs) ==
  IF xs = <<>> THEN seq ELSE SetAddAll(SetAdd(seq, Head(xs)), Tail(xs))

(* new Set(iterable) *)
NewSet(xs) == SetAddAll(<<>>, xs)

ProcInput(p, schema) == IF schema # None THEN [p EXCEPT !.inputSchema = schema] ELSE p
ProcOutput(p, schema) == IF schema # None THEN [p EXCEPT !.outputSchema = schema] ELSE p
ProcHandler(p, h) == [p EXCEPT !.handlerFunction = h]
ProcHttp(p, method) == [p EXCEPT !.httpOptions = [enabled |-> TRUE, method |-> method]]
(* http(options) with a boolean for options *)
ProcHttpBoolean(p, enabled) == [p EXCEPT !.httpOptions = [enabled |-> enabled, method |-> None]]
ProcUse(p, mw) == [p EXCEPT !.middlewares = SetAdd(@, mw)]

(* An Error thrown while building: its message template and the values    *)
(* interpolated into it.  NoError: nothing was thrown.                     *)
NoError == [message |-> "", args |-> <<>>]
HandlerNotDefined == [message |-> "Procedure handler is not defined", args |-> <<>>]

(* CallValidated without the validation layer. *)
CallUnvalidated(p, o) == RunHandler(p.handlerFunction, o)

(* The validation layer compile() and wrap() build around the handler. *)
CallValidated(p, o) ==
  LET h == p.handlerFunction IN
  CASE p.inputSchema = None /\ p.outputSchema = None -> RunHandler(h, o)
    [] p.inputSchema = None /\ p.outputSchema # None ->
         LET r == RunHandler(h, o) IN
         IF r.out.ok
         THEN [tr |-> r.tr \o <<Event("validate", p.outputSchema, Options(r.out.v, o.context))>>,
               out |-> Validate(p.outputSchema, r.out.v)]
         ELSE r
    [] p.inputSchema # None /\ p.outputSchema = None ->
         LET vi == Validate(p.inputSchema, o.input)
             ev == <<Event("validate", p.inputSchema, o)>> IN
         IF vi.ok
         THEN LET r == RunHandler(h, [o EXCEPT !.input = vi.v]) IN
              [tr |-> ev \o r.tr, out |-> r.out]
         ELSE [tr |-> ev, out |-> vi]
    [] OTHER ->
         LET vi == Validate(p.inputSchema, o.input)
             ev == <<Event("validate", p.inputSchema, o)>> IN
         IF vi.ok
         THEN LET r == RunHandler(h, [o EXCEPT !.input = vi.v]) IN
              IF r.out.ok
              THEN [tr |-> ev \o r.tr
                            \o <<Event("validate", p.outputSchema, Options(r.out.v, o.context))>>,
                    out |-> Validate(p.outputSchema, r.out.v)]
              ELSE [tr |-> ev \o r.tr, out |-> r.out]
         ELSE [tr |-> ev, out |-> vi]

(* CompileError without the check of handlerFunction. *)
CompileErrorNever(p) == NoError

(* compile(): the error it throws (NoError when it returns a function). *)
CompileError(p) == IF p.handlerFunction = None THEN HandlerNotDefined ELSE NoError

(* The function compile() returned, called with options. *)
CallCompiled(p, o) == CallValidated(p, o)

(***************************************************************************)
(* Middleware composition.  A middleware is run with a `next` whose single *)
(* call yields n1 and whose second call yields n2.                         *)
(***************************************************************************)
RunMiddleware(mw, o, n1, n2) ==
  LET enter == <<Event("enter", mw, o)>>
      exit == <<Event("exit", mw, o)>> IN
  CASE MwKind(mw) = "skip" -> [tr |-> enter, out |-> Returned(UnauthorizedError)]
    [] MwKind(mw) = "twice" ->
         IF ~n1.out.ok THEN [tr |-> enter \o n1.tr, out |-> n1.out]
         ELSE IF ~n2.out.ok THEN [tr |-> enter \o n1.tr \o n2.tr, out |-> n2.out]
         ELSE [tr |-> enter \o n1.tr \o n2.tr \o exit, out |-> n2.out]
    [] OTHER ->
         IF ~n1.out.ok THEN [tr |-> enter \o n1.tr, out |-> n1.out]
         ELSE [tr |-> enter \o n1.tr \o exit, out |-> n1.out]

(* Procedure.wrap(): the error it throws (NoError when it returns one). *)
WrapError(p) == IF p.handlerFunction = None THEN HandlerNotDefined ELSE NoError

(* Procedure.wrap(): the layer composed for middleware[i..], called with    *)
(* options; each next() calls the layer below it with the same options.    *)
RECURSIVE WrapComposed(_, _, _)
WrapComposed(p, i, o) ==
  IF i > Len(p.middlewares) THEN CallValidated(p, o)
  ELSE LET inner == WrapComposed(p, i + 1, o) IN
       RunMiddleware(p.middlewares[i], o, inner, inner)

CallWrapped(p, o) == WrapComposed(p, 1, o)

(* WrapHandlerNext taking the middleware from the end of the array. *)
RECURSIVE WrapHandlerNextReversed(_, _, _, _)
WrapHandlerNextReversed(middlewaresArray, idx, p, o) ==
  IF idx = Len(middlewaresArray)
  THEN LET r == CallCompiled(p, o) IN [tr |-> r.tr, out |-> r.out, idx |-> idx]
  ELSE LET mw == middlewaresArray[Len(middlewaresArray) - idx]
           n1 == WrapHandlerNextReversed(middlewaresArray, idx + 1, p, o)
           n2 == WrapHandlerNextReversed(middlewaresArray, n1.idx, p, o)
           r == RunMiddleware(mw, o, n1, n2) IN
       [tr |-> r.tr, out |-> r.out,
        idx |-> CASE MwKind(mw) = "skip" -> idx + 1
                  [] MwKind(mw) = "twice" /\ n1.out.ok -> n2.idx
                  [] OTHER -> n1.idx]

(* Ultra.wrapHandler: one call of the closure `next`, which shares the     *)
(* counter idx with every other call of it in this invocation.             *)
RECURSIVE WrapHandlerNext(_, _, _, _)
WrapHandlerNext(middlewaresArray, idx, p, o) ==
  IF idx = Len(middlewaresArray)
  THEN LET r == CallCompiled(p, o) IN [tr |-> r.tr, out |-> r.out, idx |-> idx]
  ELSE LET mw == middlewaresArray[idx + 1]
           n1 == WrapHandlerNext(middlewaresArray, idx + 1, p, o)
           n2 == WrapHandlerNext(middlewaresArray, n1.idx, p, o)
           r == RunMiddleware(mw, o, n1, n2) IN
       [tr |-> r.tr, out |-> r.out,
        idx |-> CASE MwKind(mw) = "skip" -> idx + 1
                  [] MwKind(mw) = "twice" /\ n1.out.ok -> n2.idx
                  [] OTHER -> n1.idx]

(* The handler wrapHandler(compile(), middlewares) returned, called. *)
WrapHandlerCall(p, middlewares, o) ==
  IF middlewares = <<>> THEN CallCompiled(p, o)
  ELSE Let(WrapHandlerNext(middlewares, 0, p, o), LAMBDA r : [tr |-> r.tr, out |-> r.out])

(***************************************************************************)
(* Strings that are joined or split on '/' (procedure paths, keys of a     *)
(* ProceduresMap) are held as the sequence of their '/'-separated          *)
(* segments: "users/list" is <<"users", "list">>, "" is <<"">>.            *)
(***************************************************************************)
EmptyString == <<"">>

(* path ? `${path}/${childKey}` : childKey *)
NextPath(path, childKey) == IF path = EmptyString THEN childKey ELSE path \o childKey

(***************************************************************************)
(* The initializers of the program under test.  A ProceduresMap is the     *)
(* sequence of its entries in key order; a value is a Procedure or a       *)
(* nested ProceduresMap.                                                   *)
(***************************************************************************)
ProcNode(p) == [isProcedure |-> TRUE, p |-> p, entries |-> <<>>]
MapNode(entries) == [isProcedure |-> FALSE, p |-> NewProcedure, entries |-> entries]
Entry(key, value) == [key |-> key, value |-> value]

Initializers == {"i1", "i2", "i3", "i4", "i5"}

(* inputFactory of build(): the Procedure input(schema) returns. *)
InputFactory(enableByDefault, schema) ==
  LET procedure == ProcInput(NewProcedure, schema) IN
  IF enableByDefault THEN ProcHttp(procedure, None) ELSE procedure

(* initializer(inputFactory) *)
InitializerMap(initializer, enableByDefault) ==
  LET input(schema) == InputFactory(enableByDefault, schema) IN
  CASE initializer = "i1" ->
         \* { ping: input().http().use(m2).handler(echo),
         \*   users: { list: input(sString).output(sAny).handler(echo) } }
         <<Entry(<<"ping">>, ProcNode(ProcHandler(ProcUse(ProcHttp(input(None), None), "m2"), "echo"))),
           Entry(<<"users">>, MapNode(<<
             Entry(<<"list">>, ProcNode(ProcHandler(ProcOutput(input("sString"), "sAny"), "echo")))>>))>>
    [] initializer = "i2" ->
         \* { books: { list: input().http('GET').handler(answer),
         \*            drop: input().http().handler(boom) },
         \*   ping: input().handler(answer) }
         <<Entry(<<"books">>, MapNode(<<
             Entry(<<"list">>, ProcNode(ProcHandler(ProcHttp(input(None), "GET"), "answer"))),
             Entry(<<"drop">>, ProcNode(ProcHandler(ProcHttp(input(None), None), "boom")))>>)),
           Entry(<<"ping">>, ProcNode(ProcHandler(input(None), "answer")))>>
    [] initializer = "i3" ->
         \* { 'a/b': input().handler(echo), a: { b: input().http().handler(boom) } }
         <<Entry(<<"a", "b">>, ProcNode(ProcHandler(input(None), "echo"))),
           Entry(<<"a">>, MapNode(<<
             Entry(<<"b">>, ProcNode(ProcHandler(ProcHttp(input(None), None), "boom")))>>))>>
    [] initializer = "i5" ->
         \* { off: input().http(false).handler(echo) }
         <<Entry(<<"off">>, ProcNode(ProcHandler(ProcHttpBoolean(input(None), FALSE), "echo")))>>
    [] OTHER ->
         \* { draft: input().http() }
         <<Entry(<<"draft">>, ProcNode(ProcHttp(input(None), None)))>>

(***************************************************************************)
(* Context derivation steps of the program under test: a static record, or *)
(* a function of the context derived so far (its outcome).                 *)
(***************************************************************************)
Derives == {"dAuth", "dRole", "dOwner"}

DeriveValue(derive, context) ==
  CASE derive = "dAuth" -> Returned([EmptyCtx EXCEPT !["auth"] = "yes", !["role"] = "user"])
    [] derive = "dRole" ->
         Returned([EmptyCtx EXCEPT !["role"] = IF context["auth"] = "yes" THEN "admin" ELSE "guest"])
    [] OTHER ->
         IF context["auth"] = Absent THEN Thrown(ErrorVal("no auth"))
         ELSE Returned([EmptyCtx EXCEPT !["role"] = "owner"])

(* enrichContext: the context after the steps that ran, the steps called   *)
(* (each with the context it was given) and the exception of the step that *)
(* threw, if one did.                                                      *)
RECURSIVE EnrichContext(_, _, _)
EnrichContext(derived, context, tr) ==
  IF derived = <<>> THEN [out |-> Returned(Undefined), context |-> context, tr |-> tr]
  ELSE LET derive == Head(derived)
           value == DeriveValue(derive, context)
           tr1 == Append(tr, Event("derive", derive, Options(Undefined, context))) IN
       IF value.ok
       THEN EnrichContext(Tail(derived), Assign(context, value.v), tr1)
       ELSE [out |-> value, context |-> context, tr |-> tr1]

(***************************************************************************)
(* Ultra: the module builder.                                              *)
(***************************************************************************)
Modules == {"a", "b", "c"}
Listeners == {"l1"}

NewUltra ==
  [initializers |-> <<>>,   \* Map initializer -> Set of scoped middleware, in insertion order
   events |-> <<>>,         \* the Set of 'server:started' listeners
   middlewares |-> <<>>,
   derived |-> <<>>,
   derivedUpgrade |-> <<>>,
   options |-> [enableByDefault |-> FALSE],
   httpEnabled |-> FALSE,
   server |-> None]

(* new Ultra(options) without the request/reply listener of the option *)
NewUltraWithLazyListener(options) == [NewUltra EXCEPT !.options = options]

(* new Ultra(options) *)
NewUltraWith(options) ==
  [NewUltra EXCEPT !.options = options, !.httpEnabled = options.enableByDefault]

InitializerIndex(initializers, initializer) ==
  IF \E i \in 1..Len(initializers) : initializers[i].initializer = initializer
  THEN CHOOSE i \in 1..Len(initializers) : initializers[i].initializer = initializer
  ELSE 0

(* SetInitializer with a list in place of the Map: a key is added again. *)
SetInitializerAgain(initializers, initializer, middlewares) ==
  Append(initializers, [initializer |-> initializer, middlewares |-> NewSet(middlewares)])

(* The Map update shared by routes() and merge(): a new key gets           *)
(* new Set(middlewares), an existing key's Set gets them added.            *)
SetInitializer(initializers, initializer, middlewares) ==
  LET i == InitializerIndex(initializers, initializer) IN
  IF i = 0
  THEN Append(initializers, [initializer |-> initializer, middlewares |-> NewSet(middlewares)])
  ELSE [initializers EXCEPT ![i].middlewares = SetAddAll(@, middlewares)]

UltraRoutes(u, initializer, middlewares) ==
  [u EXCEPT !.initializers = SetInitializer(@, initializer, middlewares)]

UltraUseMiddleware(u, mw) == [u EXCEPT !.middlewares = SetAdd(@, mw)]

UltraDerive(u, derive) == [u EXCEPT !.derived = SetAdd(@, derive)]

UltraDeriveUpgrade(u, derive) == [u EXCEPT !.derivedUpgrade = SetAdd(@, derive)]

UltraOn(u, listener) == [u EXCEPT !.events = SetAdd(@, listener)]

RECURSIVE MergeInitializers(_, _)
MergeInitializers(initializers, others) ==
  IF others = <<>> THEN initializers
  ELSE MergeInitializers(
         SetInitializer(initializers, Head(others).initializer, Head(others).middlewares),
         Tail(others))

(* merge(module) that adds what the module holds last first *)
UltraMergeReversed(u, module) ==
  [u EXCEPT !.initializers = MergeInitializers(@, module.initializers),
            !.derived = SetAddAll(@, [i \in 1..Len(module.derived) |->
                                        module.derived[Len(module.derived) + 1 - i]]),
            !.derivedUpgrade = SetAddAll(@, module.derivedUpgrade),
            !.middlewares = SetAddAll(@, [i \in 1..Len(module.middlewares) |->
                                            module.middlewares[Len(module.middlewares) + 1 - i]]),
            !.events = SetAddAll(@, module.events)]

(* merge(module) *)
UltraMerge(u, module) ==
  [u EXCEPT !.initializers = MergeInitializers(@, module.initializers),
            !.derived = SetAddAll(@, module.derived),
            !.derivedUpgrade = SetAddAll(@, module.derivedUpgrade),
            !.middlewares = SetAddAll(@, module.middlewares),
            !.events = SetAddAll(@, module.events)]

(* merge(module) that stores the Set of the module itself under a key the  *)
(* instance did not hold: the keys whose Set the two then share.           *)
SharedSetsOfModule(u, module) ==
  {module.initializers[i].initializer :
     i \in {j \in 1..Len(module.initializers) :
              InitializerIndex(u.initializers, module.initializers[j].initializer) = 0}}

(* The keys under which merge(module) stores a Set that the module holds   *)
(* too: none, a key the instance did not hold gets new Set(middlewares).   *)
SharedSets(u, module) == {}

(* The instances that hold, under the key, the Set that one of `from`      *)
(* holds; sh is the set of <<m, n, key>> where m stored the Set of n.      *)
RECURSIVE Linked(_, _, _, _)
Linked(sh, key, from, k) ==
  IF k = 0 THEN from
  ELSE Linked(sh, key,
              from \cup {n \in Modules :
                           \E m \in from : <<m, n, key>> \in sh \/ <<n, m, key>> \in sh},
              k - 1)

SameSet(sh, m, n, key) == n \in Linked(sh, key, {m}, Cardinality(Modules))

(* The instances when instance m has become u: a Set that another instance *)
(* holds too is changed for both.                                          *)
Held(all, sh, m, u) ==
  [n \in DOMAIN all |->
     IF n = m THEN u
     ELSE LET initializers == all[n].initializers
              Of(key) == InitializerIndex(u.initializers, key)
          IN [all[n] EXCEPT !.initializers =
                [j \in 1..Len(initializers) |->
                   IF SameSet(sh, m, n, initializers[j].initializer)
                        /\ Of(initializers[j].initializer) # 0
                   THEN [initializer |-> initializers[j].initializer,
                         middlewares |->
                           u.initializers[Of(initializers[j].initializer)].middlewares]
                   ELSE initializers[j]]]]

(***************************************************************************)
(* build()                                                                 *)
(***************************************************************************)
AlreadyExists(path) == [message |-> "Procedure \"%\" already exists", args |-> <<path>>]

(* HasPath without the lookup: a path is never found. *)
HasPathNever(handlers, path) == FALSE

(* handlers.has(path) *)
HasPath(handlers, path) == \E i \in 1..Len(handlers) : handlers[i].path = path

(* EffectiveMiddlewares without the middleware scoped to the initializer. *)
EffectiveMiddlewaresUnscoped(global, scopedMiddleware, own) ==
  NewSet(global \o own)

(* EffectiveMiddlewares with the groups spread in the opposite order. *)
EffectiveMiddlewaresOwnFirst(global, scopedMiddleware, own) ==
  NewSet(own \o scopedMiddleware \o global)

(* new Set([...this.middlewares, ...scopedMiddleware, ...procedure.middlewares]) *)
EffectiveMiddlewares(global, scopedMiddleware, own) ==
  NewSet(global \o scopedMiddleware \o own)

(* for (const path in map) stack.push({ path, value: map[path] }) *)
PushAll(stack, path, entries) ==
  stack \o [i \in 1..Len(entries) |->
              [path |-> IF path = <<>> THEN entries[i].key ELSE NextPath(path, entries[i].key),
               value |-> entries[i].value]]

(* The while loop over the stack of one initializer's map. *)
RECURSIVE WalkStack(_, _, _, _)
WalkStack(u, init, stack, acc) ==
  IF stack = <<>> \/ acc.error # NoError THEN acc
  ELSE LET top == stack[Len(stack)]
           rest == SubSeq(stack, 1, Len(stack) - 1) IN
       IF top.value.isProcedure
       THEN IF HasPath(acc.handlers, top.path)
            THEN [acc EXCEPT !.error = AlreadyExists(top.path)]
            ELSE LET procedure == top.value.p
                     httpEnabled == acc.httpEnabled \/ procedure.httpOptions.enabled
                     middlewares == EffectiveMiddlewares(u.middlewares, init.middlewares,
                                                         procedure.middlewares) IN
                 IF CompileError(procedure) # NoError
                 THEN [acc EXCEPT !.httpEnabled = httpEnabled, !.error = CompileError(procedure)]
                 ELSE WalkStack(u, init, rest,
                        [acc EXCEPT
                           !.httpEnabled = httpEnabled,
                           !.handlers = Append(@, [path |-> top.path,
                                                   initializer |-> init.initializer,
                                                   procedure |-> procedure,
                                                   middlewares |-> middlewares]),
                           !.routes = IF procedure.httpOptions.enabled
                                      THEN Append(@, [httpPath |-> EmptyString \o top.path,
                                                      method |-> procedure.httpOptions.method,
                                                      path |-> top.path])
                                      ELSE @])
       ELSE WalkStack(u, init, PushAll(rest, top.path, top.value.entries), acc)

(* The for loop over this.initializers. *)
RECURSIVE BuildFrom(_, _, _)
BuildFrom(u, k, acc) ==
  IF k > Len(u.initializers) \/ acc.error # NoError THEN acc
  ELSE LET init == u.initializers[k]
           map == InitializerMap(init.initializer, u.options.enableByDefault) IN
       BuildFrom(u, k + 1,
                 WalkStack(u, init, PushAll(<<>>, <<>>, map),
                           [acc EXCEPT !.invoked = Append(@, init.initializer)]))

(* build(): the handlers Map and the routes in insertion order, the value  *)
(* left in this.httpEnabled, the initializers invoked and the Error thrown *)
Build(u) ==
  BuildFrom(u, 1, [handlers |-> <<>>, routes |-> <<>>, httpEnabled |-> u.httpEnabled,
                   invoked |-> <<>>, error |-> NoError])

(***************************************************************************)
(* JSON.  A JSON text is held as the value it encodes plus whether the     *)
(* text is well formed; JSON.stringify drops what JSON cannot carry.       *)
(***************************************************************************)
(* String(data) *)
ToStr(v) ==
  CASE v.t = "string" -> v.s
    [] v.t \in {"number", "bigint"} -> ToString(v.n)
    [] v.t = "boolean" -> IF v.n = 1 THEN "true" ELSE "false"
    [] v.t = "null" -> "null"
    [] v.t = "undefined" -> "undefined"
    [] OTHER -> "[object Object]"

(* !data *)
Falsy(v) ==
  \/ v.t \in {"undefined", "null"}
  \/ v.t = "string" /\ v.s = ""
  \/ v.t \in {"number", "boolean"} /\ v.n = 0

(* typeof data === 'object' *)
TypeofObject(v) == v.t \in {"object", "null", "stream"}

(* request.body of a request that has one: a ReadableStream. *)
Stream == Val("stream", "", 0, "")

SyntaxError == Val("Error", "JSON Parse error", 0, "SyntaxError")

(* The characters JSON.stringify escapes inside a string. *)
NeedsEscape(chars) == \E i \in 1..Len(chars) : chars[i] \in {"\"", "\\"}

(***************************************************************************)
(* RPC result envelopes as sent on a socket (rpc.ts Result, as JSON text). *)
(***************************************************************************)
ErrorFrame(id, code, message) ==
  [wellformed |-> TRUE, id |-> id, isError |-> TRUE, code |-> code, message |-> message,
   result |-> Undefined]
ResultFrame(id, result) ==
  [wellformed |-> TRUE, id |-> id, isError |-> FALSE, code |-> 0, message |-> "",
   result |-> result]

(* `{"id": "${rpc.id}", "error": {"code": 404, "message": "Not found"}}`:   *)
(* the id is pasted between the quotes as it is.                           *)
NotFoundFrame(id) == [ErrorFrame(id, 404, "Not found") EXCEPT !.wellformed = ~NeedsEscape(id)]

(* toRPCResponse with the cases of Error and of UltraError exchanged. *)
toRPCResponseErrorFirst(id, data) ==
  CASE data.t \in {"Error", "UltraError"} -> ErrorFrame(id, 500, data.s)
    [] data.t = "Response" -> ErrorFrame(id, data.n, data.name)
    [] TypeofObject(data) \/ data.t \in {"number", "boolean"} -> ResultFrame(id, data)
    [] OTHER -> ResultFrame(id, [data EXCEPT !.t = "string", !.s = ToStr(data), !.n = 0])

toRPCResponse(id, data) ==
  CASE data.t = "UltraError" -> ErrorFrame(id, data.n, data.s)
    [] data.t = "Error" -> ErrorFrame(id, 500, data.s)
    [] data.t = "Response" -> ErrorFrame(id, data.n, data.name)
    [] TypeofObject(data) \/ data.t \in {"number", "boolean"} -> ResultFrame(id, data)
    [] OTHER -> ResultFrame(id, [data EXCEPT !.t = "string", !.s = ToStr(data), !.n = 0])

(***************************************************************************)
(* HTTP responses as sent to the client.                                   *)
(***************************************************************************)
HTTPResponse(status, statusText, type, body) ==
  [status |-> status, statusText |-> statusText, type |-> type, body |-> body]

TextPlain == "text/plain;charset=utf-8"
ApplicationJSON == "application/json;charset=utf-8"

(* Response.json(data, { status }) *)
ResponseJSON(data, status) == HTTPResponse(status, "", ApplicationJSON, data)

(* UltraError.toResponse(): { error: { name, message } } with its status *)
ErrorBody(e) == Val("object", "{\"error\":{\"name\":\"" \o e.name \o "\",\"message\":\"" \o e.s \o "\"}}", 0, "")

(* A Response object a handler made from a string body, as it is sent. *)
FromResponse(data) == HTTPResponse(data.n, data.name, TextPlain, Str(data.s))

toHTTPResponse(data) ==
  CASE data.t = "Response" -> FromResponse(data)
    [] data.t = "UltraError" -> ResponseJSON(ErrorBody(data), data.n)
    [] data.t = "Error" -> HTTPResponse(500, "", TextPlain, Str("Internal Server Error"))
    [] TypeofObject(data) -> ResponseJSON(data, 200)
    [] Falsy(data) -> HTTPResponse(204, "", None, Null)
    [] OTHER -> HTTPResponse(200, "", TextPlain, [data EXCEPT !.t = "string", !.s = ToStr(data), !.n = 0])

(***************************************************************************)
(* What start() hands to serve(): the dispatch table and the routes of     *)
(* build(), the handler of '/*', and whether routes were registered.       *)
(***************************************************************************)
NotServing ==
  [running |-> FALSE, handlers |-> <<>>, routes |-> <<>>, hasRoutes |-> FALSE,
   notFoundMiddlewares |-> <<>>, emitted |-> <<>>]

(* () => new Response('Not Found', { status: 404 }) *)
NotFoundProcedure == ProcHandler(NewProcedure, "notFound")

(* handlers.get(path): the index of the entry, 0 for undefined *)
HandlerIndex(handlers, path) ==
  IF \E i \in 1..Len(handlers) : handlers[i].path = path
  THEN CHOOSE i \in 1..Len(handlers) : handlers[i].path = path
  ELSE 0

(* The route serve() picks for a request: the index of the procedure       *)
(* route registered for the path (for every method, or for the request's   *)
(* method), 0 for '/*'.                                                    *)
RouteIndex(routes, httpPath, method) ==
  LET match(i) == /\ routes[i].httpPath = httpPath
                  /\ routes[i].method \in {None, method} IN
  IF \E i \in 1..Len(routes) : match(i) THEN CHOOSE i \in 1..Len(routes) : match(i) ELSE 0

(***************************************************************************)
(* The request/reply entry: HTTPHandler of build() and '/*' of start().    *)
(***************************************************************************)
NoBody == [present |-> FALSE, wellformed |-> FALSE, json |-> Undefined, text |-> ""]
TextBody(text) == [present |-> TRUE, wellformed |-> FALSE, json |-> Undefined, text |-> text]
JSONBody(v) == [present |-> TRUE, wellformed |-> TRUE, json |-> v, text |-> ToStr(v)]
MalformedBody == TextBody("{\"a\":")

Request(method, httpPath, hasQuery, type, body) ==
  [method |-> method, httpPath |-> httpPath, hasQuery |-> hasQuery, contentLength |-> "",
   type |-> type, body |-> body]

(* Object.fromEntries(new URLSearchParams(...).entries()) *)
QueryObject == Val("object", "{\"q\":\"1\"}", 0, "")

(* The `Parse input` part of HTTPHandler: the input, or what it throws. *)
ParseInput(request) ==
  IF ~request.body.present THEN Returned(Null)
  ELSE IF request.method = "GET"
       THEN IF request.hasQuery THEN Returned(QueryObject) ELSE Returned(Stream)
       ELSE IF request.contentLength = "0" \/ request.type = None THEN Returned(Stream)
            ELSE CASE request.type = "application/json" ->
                        IF request.body.wellformed THEN Returned(request.body.json)
                        ELSE Thrown(SyntaxError)
                   [] request.type = "text/plain" -> Returned(Str(request.body.text))
                   [] OTHER -> Returned(Stream)

NoResponse == HTTPResponse(0, "", None, Undefined)

(* serve()'s error hook: what it emits and the response it returns. *)
ServerError(tr, emitted) ==
  [tr |-> tr, emitted |-> Append(emitted, "unhandled:error"), escaped |-> TRUE,
   response |-> HTTPResponse(500, "", TextPlain, Str("Internal server error"))]

(* this.derived.size ? await this.enrichContext(base) : base *)
DerivedContext(derived, base) ==
  IF derived # <<>> THEN EnrichContext(derived, base, <<>>)
  ELSE [out |-> Returned(Undefined), context |-> base, tr |-> <<>>]

(* The steps and the outcome of: derive the context (c), then call the     *)
(* wrapped handler with it.                                                *)
Chained(c, p, middlewares, input) ==
  IF ~c.out.ok THEN [tr |-> c.tr, out |-> c.out]
  ELSE Let(WrapHandlerCall(p, middlewares, Options(input, c.context)),
           LAMBDA r : [tr |-> c.tr \o r.tr, out |-> r.out])

(* HTTPHandler of the route of `entry`: the input is parsed before the try *)
(* block; the context is derived and the handler called inside it.         *)
HTTPHandler(derived, entry, request) ==
  Let(ParseInput(request), LAMBDA input :
    IF ~input.ok THEN ServerError(<<>>, <<"http:request">>)
    ELSE Let(Chained(DerivedContext(derived, HTTPContext), entry.procedure,
                     entry.middlewares, input.v),
             LAMBDA r :
               [tr |-> r.tr, escaped |-> FALSE,
                emitted |-> IF r.out.ok THEN <<"http:request">>
                            ELSE <<"http:request", "error">>,
                response |-> toHTTPResponse(r.out.v)]))

(* '/*' of start(): notFoundHandler outside any try / catch. *)
NotFoundHandler(derived, sv, request) ==
  Let(Chained(DerivedContext(derived, HTTPContext), NotFoundProcedure,
              sv.notFoundMiddlewares, Null),
      LAMBDA r :
        IF ~r.out.ok THEN ServerError(r.tr, <<"http:request">>)
        ELSE [tr |-> r.tr, escaped |-> FALSE, emitted |-> <<"http:request">>,
              response |-> IF r.out.v.t = "Response" THEN FromResponse(r.out.v)
                           ELSE NoResponse])

(* serve() with the routes of start(): the fetch of one request. *)
Fetch(derived, sv, request) ==
  Let(RouteIndex(sv.routes, request.httpPath, request.method), LAMBDA i :
    IF i # 0
    THEN HTTPHandler(derived, sv.handlers[HandlerIndex(sv.handlers, sv.routes[i].path)],
                     request)
    ELSE NotFoundHandler(derived, sv, request))

(***************************************************************************)
(* Connection upgrade: '/ws' of start() and enrichUpgrade.  The upgrade    *)
(* derivation steps of the program under test (header names in lower case, *)
(* as Headers keeps them):                                                 *)
(*   uSession  () => ({ data: { session: 'id' } })                         *)
(*   uAnother  { data: { another: 'value' },                               *)
(*               headers: { 'x-custom-header': 'custom' } }                *)
(*   uRole     (context) => ({ data: { session: context.role ?? 'anon' },  *)
(*               headers: { 'x-custom-header': 'role', 'x-role': 'set' } })*)
(*   uFail     () => { throw new Error('no session') }                     *)
(***************************************************************************)
UpgradeSteps == {"uSession", "uAnother", "uRole", "uFail"}
DataKeys == {"session", "another"}
UpgradeHeaderKeys == {"x-custom-header", "x-role"}

NoData == [k \in DataKeys |-> Absent]
NoUpgradeHeaders == [k \in UpgradeHeaderKeys |-> Absent]

DeriveUpgradeValue(derive, context) ==
  CASE derive = "uSession" ->
         Returned([data |-> [NoData EXCEPT !["session"] = "id"], headers |-> NoUpgradeHeaders])
    [] derive = "uAnother" ->
         Returned([data |-> [NoData EXCEPT !["another"] = "value"],
                   headers |-> [NoUpgradeHeaders EXCEPT !["x-custom-header"] = "custom"]])
    [] derive = "uRole" ->
         Returned([data |-> [NoData EXCEPT !["session"] =
                               IF context["role"] = Absent THEN "anon" ELSE context["role"]],
                   headers |-> [NoUpgradeHeaders EXCEPT !["x-custom-header"] = "role",
                                                        !["x-role"] = "set"]])
    [] OTHER -> Thrown(ErrorVal("no session"))

(* Object.assign that keeps the value of a key the target has. *)
AssignKeysOnce(target, source) ==
  [k \in DOMAIN target |-> IF target[k] # Absent THEN target[k] ELSE source[k]]

(* Object.assign(options.data, result.data), and options.headers.set(key,  *)
(* value) for each entry: the keys the source has override the target's.   *)
AssignKeys(target, source) ==
  [k \in DOMAIN target |-> IF source[k] # Absent THEN source[k] ELSE target[k]]

(* enrichUpgrade: the options after the steps that ran, the steps called   *)
(* and the exception of the step that threw, if one did.                   *)
RECURSIVE enrichUpgrade(_, _, _, _)
enrichUpgrade(derivedUpgrade, context, options, tr) ==
  IF derivedUpgrade = <<>> THEN [out |-> Returned(Undefined), options |-> options, tr |-> tr]
  ELSE LET derive == Head(derivedUpgrade)
           result == DeriveUpgradeValue(derive, context)
           tr1 == Append(tr, Event("deriveUpgrade", derive, Options(Undefined, context))) IN
       IF result.ok
       THEN enrichUpgrade(Tail(derivedUpgrade), context,
                          [data |-> AssignKeys(options.data, result.v.data),
                           headers |-> AssignKeys(options.headers, result.v.headers)],
                          tr1)
       ELSE [out |-> result, options |-> options, tr |-> tr1]

(* What became of an upgrade request: whether server.upgrade was called,   *)
(* with options or without, what it returned, and the options.             *)
NoUpgrade ==
  [called |-> FALSE, withOptions |-> FALSE, upgraded |-> FALSE,
   data |-> NoData, headers |-> NoUpgradeHeaders]

(* server.upgrade(request, options) returned `accepts`; the route returns  *)
(* nothing when it is true and the 500 response when it is not.            *)
UpgradeCalled(tr, withOptions, options, accepts) ==
  [tr |-> tr, emitted |-> <<"http:request">>, escaped |-> FALSE,
   response |-> IF accepts THEN NoResponse
                ELSE HTTPResponse(500, "", TextPlain, Str("WebSocket upgrade failed")),
   upgrade |-> [called |-> TRUE, withOptions |-> withOptions, upgraded |-> accepts,
                data |-> options.data, headers |-> options.headers]]

(* An exception left the route: serve()'s error hook answers. *)
UpgradeThrown(tr) == ServerError(tr, <<"http:request">>) @@ [upgrade |-> NoUpgrade]

(* '/ws' of start() *)
UpgradeRoute(derived, derivedUpgrade, accepts) ==
  IF derivedUpgrade = <<>>
  THEN UpgradeCalled(<<>>, FALSE, [data |-> NoData, headers |-> NoUpgradeHeaders], accepts)
  ELSE Let(DerivedContext(derived, HTTPContext), LAMBDA c :
         IF ~c.out.ok THEN UpgradeThrown(c.tr)
         ELSE Let(enrichUpgrade(derivedUpgrade, c.context,
                                [data |-> NoData, headers |-> NoUpgradeHeaders], c.tr),
                  LAMBDA u :
                    IF ~u.out.ok THEN UpgradeThrown(u.tr)
                    ELSE UpgradeCalled(u.tr, TRUE, u.options, accepts)))

(***************************************************************************)
(* The message entry: websocket.message of start() and handleRPC.          *)
(***************************************************************************)
(* A value JSON.parse can give for a message: what isRPC looks at. *)
Payload(id, method, params) ==
  [isObject |-> TRUE, hasId |-> TRUE, id |-> id, hasMethod |-> TRUE, method |-> method,
   params |-> params]
NotPayload == [Payload(<<>>, <<>>, Undefined) EXCEPT !.hasId = FALSE, !.hasMethod = FALSE]

(* A message: its text parses or not, to an array of values or to one. *)
Message(wellformed, isArray, items) ==
  [wellformed |-> wellformed, isArray |-> isArray, items |-> items]

isRPC(value) == value.isObject /\ value.hasId /\ value.hasMethod

(* handleRPC: the frame sent, the steps run, the events emitted. *)
handleRPC(sv, rpc, context) ==
  Let(HandlerIndex(sv.handlers, rpc.method), LAMBDA i :
    IF i = 0 THEN [sent |-> <<NotFoundFrame(rpc.id)>>, tr |-> <<>>, emitted |-> <<>>]
    ELSE Let(WrapHandlerCall(sv.handlers[i].procedure, sv.handlers[i].middlewares,
                             Options(rpc.params, context)),
             LAMBDA r :
               [sent |-> <<toRPCResponse(rpc.id, r.out.v)>>, tr |-> r.tr,
                emitted |-> IF r.out.ok THEN <<>> ELSE <<"error">>]))

(* The for loop over rpcs; each handleRPC runs to its first await before   *)
(* the next starts and the handlers of this model never suspend.           *)
RECURSIVE HandleAll(_, _, _, _)
HandleAll(sv, rpcs, context, acc) ==
  IF rpcs = <<>> THEN acc
  ELSE Let(handleRPC(sv, Head(rpcs), context), LAMBDA r :
         HandleAll(sv, Tail(rpcs), context,
                   [acc EXCEPT !.sent = @ \o r.sent, !.tr = @ \o r.tr,
                               !.emitted = @ \o r.emitted]))

(* The elements of the message taken as they are, without isRPC. *)
RPCsOfUnfiltered(message) == message.items

(* Array.isArray(data) ? data.filter(isRPC) : isRPC(data) ? [data] : null *)
RPCsOf(message) ==
  IF message.isArray THEN SelectSeq(message.items, isRPC)
  ELSE IF isRPC(message.items[1]) THEN message.items ELSE <<>>

Quiet == [sent |-> <<>>, tr |-> <<>>, emitted |-> <<"ws:message">>, escaped |-> FALSE]

(* websocket.message *)
WSMessageHandler(derived, sv, message) ==
  IF ~message.wellformed THEN Quiet
  ELSE Let(RPCsOf(message), LAMBDA rpcs :
    IF rpcs = <<>> THEN Quiet
    ELSE Let(DerivedContext(derived, WSContext), LAMBDA c :
      IF ~c.out.ok THEN [Quiet EXCEPT !.tr = c.tr, !.escaped = TRUE]
      ELSE HandleAll(sv, rpcs, c.context, [Quiet EXCEPT !.tr = c.tr])))

(***************************************************************************)
(* The clients: createHTTPClient and createWebSocketClient invoke.         *)
(***************************************************************************)
HTTPMethods == {"POST", "GET"}

(* The request createHTTPClient sends for (method, params), or the Error   *)
(* it throws before sending.                                               *)
HTTPClientRequest(method, params, httpMethod) ==
  LET httpPath == EmptyString \o method IN
  CASE httpMethod = "GET" ->
         IF Falsy(params) THEN Returned(Request("GET", httpPath, FALSE, None, NoBody))
         ELSE IF ~TypeofObject(params)
              THEN Thrown(ErrorVal("GET requests params to be an object for query string generation"))
              ELSE Returned(Request("GET", httpPath, TRUE, None, NoBody))
    [] params.t = "string" ->
         Returned(Request(httpMethod, httpPath, FALSE, "text/plain",
                          IF params.s = "" THEN NoBody ELSE TextBody(params.s)))
    [] OTHER ->
         Returned(Request(httpMethod, httpPath, FALSE, "application/json",
                          IF params.t = "undefined" THEN NoBody ELSE JSONBody(params)))

(* What createHTTPClient's promise settles to for a response. *)
HTTPClientDecode(response) ==
  IF response.status < 200 \/ response.status > 299
  THEN Thrown(ErrorVal(response.statusText \o " " \o ToString(response.status)))
  ELSE CASE response.status = 204 -> Returned(Null)
         [] response.type = ApplicationJSON -> Returned(response.body)
         [] response.type = TextPlain -> Returned(response.body)
         [] OTHER -> Returned(Val("blob", "", 0, ""))

(* makeId() of the WebSocket client: Math.random().toString(36) *)
RequestId == <<"0", ".", "k", "3">>

(* The `error` member of an error envelope, which the client rejects with. *)
RPCError(code, message) == Val("rpcerror", message, code, "")

(* The message listener run on the frames received, in order: the first    *)
(* settlement of the promise (a frame that does not parse is logged and    *)
(* skipped); the timeout rejects, with no reason, when none settles it.    *)
RECURSIVE WSClientDecode(_)
WSClientDecode(frames) ==
  IF frames = <<>> THEN Thrown(Undefined)
  ELSE LET response == Head(frames) IN
       IF ~response.wellformed \/ response.id # RequestId THEN WSClientDecode(Tail(frames))
       ELSE IF response.isError THEN Thrown(RPCError(response.code, response.message))
       ELSE Returned(response.result)

(* JSON.stringify(payloads) of one pending request, as the server parses it *)
WSClientMessage(method, params) == Message(TRUE, TRUE, <<Payload(RequestId, method, params)>>)

(***************************************************************************)
(* crypto.ts: sign and unsign.  A string is the sequence of its            *)
(* characters; a string that is split on '.' is the sequence of its        *)
(* '.'-separated parts.  A base64url text is a sequence of symbols: the    *)
(* code of a character of the encoded value, or the digest of an HMAC,     *)
(* which stands for the key and the message it was made of.                *)
(***************************************************************************)
Alphabet == {"a", "b"}
Chr(c) == [k |-> "chr", c |-> c, key |-> "", msg |-> <<>>]
Mac(key, msg) == [k |-> "mac", c |-> "", key |-> key, msg |-> msg]

(* The base64url code of one character. *)
Code(c) == IF c = "a" THEN "YQ" ELSE "Yg"

(* Buffer.from(value).toString(ENCODING) *)
ToBase64(value) == [i \in 1..Len(value) |-> Chr(Code(value[i]))]

(* Buffer.from(base64, ENCODING).toString(): symbols that are no code of a *)
(* character decode to the replacement character.                          *)
FromBase64(base64) ==
  [i \in 1..Len(base64) |->
     IF \E c \in Alphabet : base64[i] = Chr(Code(c))
     THEN CHOOSE c \in Alphabet : base64[i] = Chr(Code(c))
     ELSE "?"]

(* createHmac('sha256', secret).update(base64).digest(ENCODING) *)
Hmac(secret, base64) == <<Mac(secret, base64)>>

(* sign(value, secret): `${base64}.${sig}` *)
sign(value, secret) ==
  Let(ToBase64(value), LAMBDA base64 : <<base64, Hmac(secret, base64)>>)

(* unsign(signedValue, secret): [base64, sig] are the first two parts of   *)
(* the split; a part that is missing is undefined, one that is '' is       *)
(* falsy.                                                                  *)
unsign(signedValue, secret) ==
  IF Len(signedValue) < 2 \/ signedValue[1] = <<>> \/ signedValue[2] = <<>>
  THEN Returned(Null)
  ELSE IF Len(signedValue[2]) # Len(Hmac(secret, signedValue[1]))
          \/ signedValue[2] # Hmac(secret, signedValue[1])
       THEN Returned(Null)
       ELSE Returned(Str(FromBase64(signedValue[1])))

(***************************************************************************)
(* cors.ts: createCORSMiddleware.  The headers of a response are a         *)
(* function from header names to values, "absent" for a header not set.    *)
(***************************************************************************)
HeaderNames ==
  {"Access-Control-Allow-Origin", "Access-Control-Allow-Methods",
   "Access-Control-Allow-Headers", "Access-Control-Expose-Headers",
   "Access-Control-Allow-Credentials", "Access-Control-Max-Age"}
NoHeaders == [h \in HeaderNames |-> Absent]

DEFAULT_HEADERS ==
  [NoHeaders EXCEPT
     !["Access-Control-Allow-Methods"] = "GET, POST, PUT, PATCH, DELETE, OPTIONS",
     !["Access-Control-Allow-Headers"] = "Accept-Language, Accept, Content-Type, Content-Language, Range",
     !["Access-Control-Expose-Headers"] = "Cache-Control, Content-Language, Content-Type, Expires, Last-Modified, Pragma",
     !["Access-Control-Max-Age"] = "3600"]

(* The CorsConfig of the application under test. *)
CorsConfig ==
  [origin |-> {"http://allowed.com", "http://also-allowed.com"}, methods |-> "GET, POST",
   allowedHeaders |-> "X-Test", exposedHeaders |-> "X-Expose", credentials |-> TRUE,
   maxAge |-> "99"]

(* cachedHeaders: the defaults, overridden by what the config sets. *)
CachedHeaders(config) ==
  [h \in HeaderNames |->
     CASE h = "Access-Control-Allow-Methods" /\ config.methods # "" -> config.methods
       [] h = "Access-Control-Allow-Headers" /\ config.allowedHeaders # "" -> config.allowedHeaders
       [] h = "Access-Control-Expose-Headers" /\ config.exposedHeaders # "" -> config.exposedHeaders
       [] h = "Access-Control-Allow-Credentials" /\ config.credentials
            /\ "*" \notin config.origin -> "true"
       [] h = "Access-Control-Max-Age" /\ config.maxAge # "" -> config.maxAge
       [] OTHER -> DEFAULT_HEADERS[h]]

(* response.headers.set(...) for Access-Control-Allow-Origin and for every *)
(* cached header.                                                          *)
WithCorsHeaders(config, origin) ==
  [h \in HeaderNames |->
     IF h = "Access-Control-Allow-Origin" THEN origin
     ELSE IF CachedHeaders(config)[h] # Absent THEN CachedHeaders(config)[h] ELSE Absent]

(* What the CORS layer hands up: the outcome of next() as it is (no        *)
(* response made, no header set), or a response with headers; and whether  *)
(* it called next().                                                       *)
Passed(next) == [out |-> next, called |-> TRUE, isResponse |-> FALSE,
                 response |-> NoResponse, headers |-> NoHeaders]

(* The middleware createCORSMiddleware(config) returns, called for a       *)
(* request with the Origin header `origin` (None: no such header); next is *)
(* the outcome of the chain below it.                                      *)
CORSMiddleware(config, hasRequest, origin, method, next) ==
  IF ~hasRequest THEN Passed(next)
  ELSE IF origin = None \/ origin \notin config.origin THEN Passed(next)
  ELSE IF method = "OPTIONS"
       THEN [out |-> Returned(ResponseVal("", 204, "")), called |-> FALSE,
             isResponse |-> TRUE, response |-> HTTPResponse(204, "", None, Null),
             headers |-> WithCorsHeaders(config, origin)]
  ELSE IF ~next.ok THEN Passed(next)
  ELSE [out |-> next, called |-> TRUE, isResponse |-> TRUE,
        response |-> toHTTPResponse(next.v), headers |-> WithCorsHeaders(config, origin)]

(* HTTPHandler around the CORS layer (the first global middleware) and the *)
(* chain below it: try { toHTTPResponse(await handler(...)) } catch.       *)
CorsHTTPHandler(config, p, origin, method, input) ==
  Let(WrapHandlerCall(p, p.middlewares, Options(input, HTTPContext)), LAMBDA inner :
    Let(CORSMiddleware(config, TRUE, origin, method, inner.out), LAMBDA r :
      [tr |-> IF r.called THEN inner.tr ELSE <<>>,
       emitted |-> IF r.out.ok THEN <<"http:request">> ELSE <<"http:request", "error">>,
       response |-> IF r.isResponse THEN r.response ELSE toHTTPResponse(r.out.v),
       headers |-> r.headers]))

(***************************************************************************)
(* middleware.ts: createJWT and verifyJWT.  A token that is split on '.'   *)
(* is the sequence of its parts; a part is the base64url text of a JSON    *)
(* value, the base64url digest of an HMAC (which stands for the key and    *)
(* the parts it was made of), or some other text, '' included.             *)
(***************************************************************************)
JSONObject(typ, alg, iat, hasExp, exp, hasNbf, nbf) ==
  [typ |-> typ, alg |-> alg, iat |-> iat, hasExp |-> hasExp, exp |-> IF hasExp THEN exp ELSE 0,
   hasNbf |-> hasNbf, nbf |-> IF hasNbf THEN nbf ELSE 0]
NoJSON == JSONObject("", "", 0, FALSE, 0, FALSE, 0)

JSONPart(json) == [k |-> "json", json |-> json, key |-> "", msg |-> <<>>, text |-> ""]
DigestPart(key, msg) == [k |-> "digest", json |-> NoJSON, key |-> key, msg |-> msg, text |-> ""]
TextPart(text) == [k |-> "text", json |-> NoJSON, key |-> "", msg |-> <<>>, text |-> text]

(* '' between two dots, or before the first, or after the last *)
EmptyPart == TextPart("")

defaultHeader == JSONObject("JWT", "HS256", 0, FALSE, 0, FALSE, 0)

(* A payload: iat, and exp and nbf where it has them. *)
JWTPayload(iat, hasExp, exp, hasNbf, nbf) == JSONObject("", "", iat, hasExp, exp, hasNbf, nbf)

(* createHmac('sha256', secret).update(`${base64Header}.${base64Payload}`) *)
(*   .digest('base64url')                                                  *)
JWTSignature(secret, base64Header, base64Payload) ==
  DigestPart(secret, <<base64Header, base64Payload>>)

(* createJWT(payload, secret), the payload with the iat of the second it   *)
(* is made in                                                              *)
createJWT(payload, secret) ==
  Let(JSONPart(defaultHeader), LAMBDA base64Header :
    Let(JSONPart(payload), LAMBDA base64Payload :
      <<base64Header, base64Payload, JWTSignature(secret, base64Header, base64Payload)>>))

(* Buffer.from(text, 'base64url').length: 32 bytes for a SHA-256 digest,   *)
(* three bytes for every four characters of another text.                  *)
ByteLength(part) ==
  IF part.k = "digest" THEN 32 ELSE IF part.k = "json" THEN 24 ELSE 3

(* JSON.parse(Buffer.from(part, 'base64url').toString()) *)
JSONParse(part) ==
  IF part.k = "json" THEN Returned(part.json) ELSE Thrown(ErrorVal("SyntaxError"))

(* `payload.exp && nowSeconds >= payload.exp`: 0 and undefined are falsy *)
Expired(payload, nowSeconds) ==
  payload.hasExp /\ payload.exp # 0 /\ nowSeconds >= payload.exp

(* `payload.nbf && nowSeconds < payload.nbf` *)
NotYet(payload, nowSeconds) ==
  payload.hasNbf /\ payload.nbf # 0 /\ nowSeconds < payload.nbf

(* What verifyJWT returns for a token it accepts. *)
JWT(header, payload) == [k |-> "jwt", header |-> header, payload |-> payload]
NoJWT == [k |-> "null", header |-> NoJSON, payload |-> NoJSON]

(* token.split('.')[i], EmptyPart for undefined: both are falsy *)
PartAt(token, i) == IF i <= Len(token) THEN token[i] ELSE EmptyPart

(* verifyJWT(token, secret) at the second nowSeconds *)
verifyJWT(token, secret, nowSeconds) ==
  Let(PartAt(token, 1), LAMBDA base64Header :
   Let(PartAt(token, 2), LAMBDA base64Payload :
    Let(PartAt(token, 3), LAMBDA signature :
      IF signature = EmptyPart \/ base64Payload = EmptyPart \/ base64Header = EmptyPart
      THEN Returned(NoJWT)
      ELSE Let(JWTSignature(secret, base64Header, base64Payload), LAMBDA expectedSig :
        IF ByteLength(signature) # ByteLength(expectedSig) THEN Returned(NoJWT)
        ELSE IF signature # expectedSig THEN Returned(NoJWT)
        ELSE Let(JSONParse(base64Header), LAMBDA header :
          Let(JSONParse(base64Payload), LAMBDA payload :
            IF ~header.ok \/ ~payload.ok THEN Returned(NoJWT)
            ELSE IF Expired(payload.v, nowSeconds) THEN Returned(NoJWT)
            ELSE IF NotYet(payload.v, nowSeconds) THEN Returned(NoJWT)
            ELSE Returned(JWT(header.v, payload.v))))))))

(***************************************************************************)
(* createWebSocketClient: the requests outstanding, the batch timer, the   *)
(* timers of the retried send, the socket with its listeners, and what was *)
(* handed to socket.send.  A call is known by its number; makeId gives     *)
(* each call an id of its own.                                             *)
(***************************************************************************)
batchSize == 3
retryCount == 1

(* makeId() of the n-th call: Math.random().toString(36), a fresh string *)
makeId(n) == [i \in 1..n |-> "k"]

(* An id no call of this client was given. *)
ForeignId == <<"0", ".", "z">>

(* One element of `requests`. *)
WebSocketRequest(n, method) ==
  [call |-> n, id |-> makeId(n), method |-> method, timeout |-> TRUE, pending |-> FALSE]

(* The promise of a call: how it settled, and how often its resolve or     *)
(* reject was called.                                                      *)
Unsettled == [state |-> "pending", value |-> Undefined, settles |-> 0]

(* resolve(value) / reject(value) of Promise.withResolvers(): the first    *)
(* call decides.                                                           *)
Decided(promise, state, value) ==
  IF promise.state = "pending"
  THEN [state |-> state, value |-> value, settles |-> promise.settles + 1]
  ELSE [promise EXCEPT !.settles = @ + 1]

(* requests.findIndex(r => r.id === id), 0 for -1 *)
FindIndex(requests, id) ==
  IF \E i \in 1..Len(requests) : requests[i].id = id
  THEN CHOOSE i \in 1..Len(requests) :
         requests[i].id = id /\ \A j \in 1..(i - 1) : requests[j].id # id
  ELSE 0

(* requests.splice(index, 1) *)
Splice(requests, index) ==
  [i \in 1..(Len(requests) - 1) |-> IF i < index THEN requests[i] ELSE requests[i + 1]]

(* wrapWithClean(id, fn)(value): the request leaves `requests`, its timer  *)
(* is cleared, and fn settles the promise.                                 *)
wrapWithClean(c, n, state, value) ==
  Let(FindIndex(c.requests, makeId(n)), LAMBDA index :
    [c EXCEPT !.requests = IF index # 0 THEN Splice(@, index) ELSE @,
              !.promises[n] = Decided(@, state, value)])

(* requests.forEach(r => { clearTimeout(r.timeout); r.reject(...) }) with  *)
(* every timer cleared before the first reject.                            *)
RECURSIVE ForEachRejectCleared(_, _)
ForEachRejectCleared(c, k) ==
  IF k > Len(c.requests) THEN [c EXCEPT !.requests = [i \in 1..Len(@) |-> [@[i] EXCEPT !.timeout = FALSE]]]
  ELSE ForEachRejectCleared(
         wrapWithClean(c, c.requests[k].call, "rejected", Str("WebSocket is not open")), k + 1)

(* requests.forEach(r => { clearTimeout(r.timeout); r.reject(...) }): the  *)
(* k-th element of the array as it is when its turn comes; reject splices  *)
(* the request out of the array that is being walked.                      *)
RECURSIVE ForEachReject(_, _)
ForEachReject(c, k) ==
  IF k > Len(c.requests) THEN c
  ELSE ForEachReject(
         wrapWithClean(c, c.requests[k].call, "rejected", Str("WebSocket is not open")), k + 1)

(* send that pushes a payload for every request. *)
AllPayloads(requests) ==
  [i \in 1..Len(requests) |-> Payload(requests[i].id, requests[i].method, Undefined)]

(* The payloads of send: one for each request that is not pending. *)
Payloads(requests) ==
  LET fresh == SelectSeq(requests, LAMBDA r : ~r.pending) IN
  [i \in 1..Len(fresh) |-> Payload(fresh[i].id, fresh[i].method, Undefined)]

(* send(retry) *)
send(c, retry) ==
  Let([c EXCEPT !.batchTimeout = FALSE], LAMBDA d :
    IF d.requests = <<>> THEN d
    ELSE IF ~d.socket.open
    THEN IF retry >= retryCount THEN ForEachReject(d, 1)
         ELSE [d EXCEPT !.retries[retry + 1] = @ + 1]
    ELSE [d EXCEPT !.socket.message = @ + 1,
                   !.socket.close = @ + 1,
                   !.requests = [i \in 1..Len(@) |-> [@[i] EXCEPT !.pending = TRUE]],
                   !.sent = Append(@, Message(TRUE, TRUE, Payloads(d.requests)))])

(* invoke(method, params, invokeOptions) *)
invoke(c, method) ==
  Let([c EXCEPT !.made = @ + 1,
                !.promises = Append(@, Unsettled),
                !.requests = Append(@, WebSocketRequest(c.made + 1, method))], LAMBDA d :
    IF Len(d.requests) >= batchSize THEN send(d, 0)
    ELSE IF ~d.batchTimeout THEN [d EXCEPT !.batchTimeout = TRUE]
    ELSE d)

(* The message listener that settles the request wherever it finds one. *)
messageListenerAnyId(c, response) ==
  IF ~response.wellformed \/ c.requests = <<>> THEN c
  ELSE Let(wrapWithClean(c, c.requests[1].call, "resolved", response.result), LAMBDA d :
         IF d.requests = <<>> THEN [d EXCEPT !.socket.message = @ - 1] ELSE d)

(* The message listener of send: JSON.parse(event.data) throws on what is  *)
(* no JSON, which is logged; a response whose id no request has is passed  *)
(* over.                                                                   *)
messageListener(c, response) ==
  IF ~response.wellformed THEN c
  ELSE Let(FindIndex(c.requests, response.id), LAMBDA index :
    IF index = 0 THEN c
    ELSE Let(IF response.isError
             THEN wrapWithClean(c, c.requests[index].call, "rejected",
                                RPCError(response.code, response.message))
             ELSE wrapWithClean(c, c.requests[index].call, "resolved", response.result),
           LAMBDA d :
             IF d.requests = <<>> THEN [d EXCEPT !.socket.message = @ - 1] ELSE d))

(* The 'message' event: the listeners that were on the socket run in turn. *)
RECURSIVE Dispatched(_, _, _)
Dispatched(c, response, listeners) ==
  IF listeners = 0 THEN c ELSE Dispatched(messageListener(c, response), response, listeners - 1)

(* The timer of a request fires: wrapWithClean(id, reject)() *)
TimedOut(c, n) == wrapWithClean(c, n, "rejected", Undefined)

(* The 'close' event: every close listener takes its message listener off  *)
(* the socket and sets a timer for send.                                   *)
Closed(c) ==
  [c EXCEPT !.socket.open = FALSE,
            !.socket.message = 0,
            !.retries[0] = @ + c.socket.close,
            !.closes = @ + 1]

(* clientOptions.socket() gives a socket that was opened anew. *)
(***************************************************************************)
(* session.ts.  A session id is a text; the n-th id that Session.makeId()  *)
(* makes is the n-th text over the alphabet (random ids do not repeat).    *)
(* The state of a session is the set of its keys.  The cookie of a client  *)
(* is the signed id, NoCookie when it has none; NoId stands for null.      *)
(***************************************************************************)
ttlSec == 100
ttlMs == ttlSec * 1000
(* sweepIntervalSec = config.ttlSec *)
sweepIntervalMs == ttlSec * 1000

SessionSecret == "0123"
SessionKeys == {"user", "foo"}
NoId == <<>>
NoCookie == <<>>

RECURSIVE SessionMakeId(_)
SessionMakeId(n) ==
  IF n = 0 THEN <<>>
  ELSE Append(SessionMakeId((n - 1) \div 2), IF (n - 1) % 2 = 0 THEN "a" ELSE "b")

(* unsign(cookie, config.secret), null as NoId *)
UnsignedId(cookie) ==
  Let(unsign(cookie, SessionSecret), LAMBDA r : IF r.v = Null THEN NoId ELSE r.v.s)

(* An entry of memoryStore: { data, touched } *)
NoEntry == [present |-> FALSE, data |-> {}, touched |-> 0]
StoreEntry(data, touched) == [present |-> TRUE, data |-> data, touched |-> touched]

(* maybeSweep(now) of the store instance whose last sweep was lastSweepAt, *)
(* on the shared map.                                                      *)
maybeSweep(map, lastSweepAt, now) ==
  IF now - lastSweepAt < sweepIntervalMs
  THEN [map |-> map, lastSweepAt |-> lastSweepAt]
  ELSE [map |-> [sessionId \in DOMAIN map |->
                   IF map[sessionId].present /\ now - map[sessionId].touched > ttlMs
                   THEN NoEntry
                   ELSE map[sessionId]],
        lastSweepAt |-> now]

(* read(sessionId): the data, found = FALSE for null *)
StoreRead(st, sessionId, now) ==
  Let(maybeSweep(st.map, st.lastSweepAt, now),
      LAMBDA sw : [store |-> sw, found |-> sw.map[sessionId].present,
                   data |-> sw.map[sessionId].data])

(* write(sessionId, data) *)
StoreWrite(st, sessionId, data, now) ==
  Let(maybeSweep(st.map, st.lastSweepAt, now),
      LAMBDA sw : [sw EXCEPT !.map[sessionId] = StoreEntry(data, now)])

(* destroy(sessionId) *)
StoreDestroy(st, sessionId, now) ==
  Let(maybeSweep(st.map, st.lastSweepAt, now),
      LAMBDA sw : [sw EXCEPT !.map[sessionId] = NoEntry])

(* touch(sessionId) *)
StoreTouch(st, sessionId, now) ==
  Let(maybeSweep(st.map, st.lastSweepAt, now),
      LAMBDA sw : IF sw.map[sessionId].present
                  THEN [sw EXCEPT !.map[sessionId].touched = now]
                  ELSE sw)

(* A Session object; protocol None for none.  lastSweepAt is that of the   *)
(* store the factory made for it; found is whether read() gave data when   *)
(* the session was initiated; replaced are the ids that regenerate()       *)
(* replaced.                                                               *)
NoSession ==
  [protocol |-> None, sessionIdFromClient |-> NoId, sessionId |-> NoId, sessionState |-> {},
   modified |-> FALSE, lastSweepAt |-> 0, found |-> FALSE, replaced |-> {}]

(* new Session(config, context): fromClient is the id unsigned from the    *)
(* cookie of the request or ws.data.sessionId; fresh is what makeId()      *)
(* gives; the store is made by the factory now.                            *)
NewSession(protocol, fromClient, fresh, now) ==
  [NoSession EXCEPT !.protocol = protocol, !.sessionIdFromClient = fromClient,
                    !.sessionId = IF fromClient # NoId THEN fromClient ELSE fresh,
                    !.lastSweepAt = now]

(* initiate(): store.read(sessionId) || {}.  Gives the session and the map. *)
initiate(ses, map, now) ==
  Let(StoreRead([map |-> map, lastSweepAt |-> ses.lastSweepAt], ses.sessionId, now),
      LAMBDA r : [ses |-> [ses EXCEPT !.sessionState = IF r.found THEN r.data ELSE {},
                                      !.found = r.found,
                                      !.lastSweepAt = r.store.lastSweepAt],
                  map |-> r.store.map])

(* commit(): the map it leaves. *)
commit(ses, map, now) ==
  Let([map |-> map, lastSweepAt |-> ses.lastSweepAt],
      LAMBDA st :
        IF ses.sessionState = {} /\ ses.sessionIdFromClient # NoId
        THEN StoreDestroy(st, ses.sessionIdFromClient, now).map
        ELSE IF ses.sessionIdFromClient # NoId /\ ses.sessionIdFromClient # ses.sessionId
             THEN StoreWrite(StoreDestroy(st, ses.sessionIdFromClient, now),
                             ses.sessionId, ses.sessionState, now).map
             ELSE IF ses.modified
                  THEN StoreWrite(st, ses.sessionId, ses.sessionState, now).map
                  ELSE StoreTouch(st, ses.sessionId, now).map)

(* Session.getOrCreateId(request, config) *)
getOrCreateId(cookie, fresh) ==
  IF cookie # NoCookie
  THEN IF UnsignedId(cookie) # NoId THEN UnsignedId(cookie) ELSE fresh
  ELSE fresh

NewSocket == [open |-> TRUE, message |-> 0, close |-> 0]

(***************************************************************************)
(* State                                                                   *)
(***************************************************************************)
VARIABLES
  proc,      \* a Procedure under construction
  pres,      \* the call made of a function built from proc as it is now
  ultra,     \* the Ultra instances, by name
  serving,   \* what each instance's start() handed to serve()
  uses,      \* the use(module) calls made: <<user, used>> (history)
  shared,    \* the Sets two instances both hold: <<user, used, initializer>>
  calls,     \* how many builder calls were made
  started,   \* the last start() call and what it did
  last,      \* the last request or message served and what it did
  conv,      \* a value and what toHTTPResponse / toRPCResponse made of it
  crypto,    \* a value, its signed form as it was handed on, and what unsign gave
  cors,      \* the last request served by the application with the CORS middleware
  loop,      \* the context objects and the invocations in flight, and the frames sent
  client,    \* the WebSocket client: requests, timers, socket, promises, frames sent
  jwt,       \* a token as it was handed on, and what verifyJWT gave
  session    \* the session store, the clock, a client's cookie and socket, the Sessions

vars == <<proc, pres, ultra, serving, uses, shared, calls, started, last, conv, crypto, cors, loop,
          client, jwt, session>>

procVars == <<proc, pres>>
ultraVars == <<ultra, serving, uses, shared, calls, started, last>>
libVars == <<conv, crypto, cors, loop, client, jwt, session>>

Inputs == {Str("hello"), Num(7)}

NoCall == [via |-> None, err |-> NoError, input |-> Undefined, tr |-> <<>>, out |-> Returned(Undefined)]

NoStart ==
  [module |-> None, warned |-> FALSE, invoked |-> <<>>, error |-> NoError, notified |-> <<>>,
   stop |-> None]

NoRequest == Request(None, <<>>, FALSE, None, NoBody)
NoMessage == Message(FALSE, FALSE, <<>>)

Nothing ==
  [entry |-> None, module |-> None, method |-> <<>>, params |-> Undefined,
   request |-> NoRequest, message |-> NoMessage,
   tr |-> <<>>, emitted |-> <<>>, escaped |-> FALSE,
   response |-> NoResponse, sent |-> <<>>, client |-> Returned(Undefined),
   upgrade |-> NoUpgrade]

(***************************************************************************)
(* The Procedure builder and the functions built from it.                  *)
(***************************************************************************)
PInput(schema) == /\ proc' = ProcInput(proc, schema) /\ pres' = NoCall /\ UNCHANGED <<ultraVars, libVars>>
POutput(schema) == /\ proc' = ProcOutput(proc, schema) /\ pres' = NoCall /\ UNCHANGED <<ultraVars, libVars>>
PHandler(h) == /\ proc' = ProcHandler(proc, h) /\ pres' = NoCall /\ UNCHANGED <<ultraVars, libVars>>
PUse(mw) == /\ proc' = ProcUse(proc, mw) /\ pres' = NoCall /\ UNCHANGED <<ultraVars, libVars>>

(* procedure.wrap()(options) *)
InvokeWrap(input) ==
  /\ pres' = IF WrapError(proc) # NoError
             THEN [NoCall EXCEPT !.via = "wrap", !.err = WrapError(proc), !.input = input]
             ELSE LET r == CallWrapped(proc, Options(input, HTTPContext)) IN
                  [via |-> "wrap", err |-> NoError, input |-> input, tr |-> r.tr, out |-> r.out]
  /\ UNCHANGED <<proc, ultraVars, libVars>>

(* wrapHandler(procedure.compile(), procedure.middlewares)(options) *)
InvokeCompiled(input) ==
  /\ pres' = IF CompileError(proc) # NoError
             THEN [NoCall EXCEPT !.via = "compile", !.err = CompileError(proc), !.input = input]
             ELSE LET r == WrapHandlerCall(proc, proc.middlewares, Options(input, HTTPContext)) IN
                  [via |-> "compile", err |-> NoError, input |-> input, tr |-> r.tr, out |-> r.out]
  /\ UNCHANGED <<proc, ultraVars, libVars>>

UltraInit ==
  /\ ultra = [m \in Modules |-> NewUltra]
  /\ serving = [m \in Modules |-> NotServing]
  /\ uses = {}
  /\ shared = {}
  /\ calls = 0
  /\ started = NoStart
  /\ last = Nothing

(* No conversion made yet. *)
NoConversion == [op |-> None, id |-> <<>>, data |-> Undefined, response |-> NoResponse,
                 frame |-> ResultFrame(<<>>, Undefined)]

ConvIdle == conv = NoConversion

(* Nothing signed yet. *)
NoSigned ==
  [op |-> None, value |-> <<>>, secret |-> "", signedValue |-> <<>>, tampered |-> None,
   with |-> "", result |-> Returned(Undefined)]

CryptoIdle == crypto = NoSigned

(* No request served yet by the application with the CORS middleware. *)
NoCors ==
  [origin |-> None, method |-> None, procedure |-> NewProcedure, tr |-> <<>>,
   emitted |-> <<>>, response |-> NoResponse, headers |-> NoHeaders]

CorsIdle == cors = NoCors

(* No request or message arrived: no context object, no invocation, no     *)
(* frame sent.                                                             *)
NoLoop == [objects |-> <<>>, tasks |-> <<>>, arrivals |-> 0, sent |-> <<>>]

LoopIdle == loop = NoLoop

(* No call made yet on an open socket. *)
MaxClientCalls == 3
MaxCloses == 1
NoClient ==
  [requests |-> <<>>, made |-> 0, promises |-> <<>>, batchTimeout |-> FALSE,
   retries |-> [retry \in 0..retryCount |-> 0], socket |-> NewSocket, sent |-> <<>>,
   closes |-> 0, passedOver |-> FALSE]

ClientIdle == client = NoClient

(* No token verified yet. *)
NoJwt ==
  [op |-> None, secret |-> "", token |-> <<>>, how |-> None, with |-> "", nowSeconds |-> 0,
   result |-> Returned(NoJWT)]

JwtIdle == jwt = NoJwt

MaxIds == 3
MaxInvocations == 1
MaxTicks == 3
MaxOpened == 3
Slots == 1..MaxInvocations
SessionIds == {SessionMakeId(n) : n \in 1..MaxIds}
NoRegenerated == [sessionId |-> NoId, cookie |-> NoCookie]
NoSessions ==
  [memoryStore |-> [sessionId \in SessionIds |-> NoEntry], now |-> 0, made |-> 0,
   opened |-> 0,
   cookie |-> NoCookie, ws |-> [open |-> FALSE, sessionId |-> NoId],
   invocations |-> [s \in Slots |-> NoSession], replaced |-> {},
   regenerated |-> [http |-> NoRegenerated, ws |-> NoRegenerated]]
SessionIdle == session = NoSessions

LibInit ==
  ConvIdle /\ CryptoIdle /\ CorsIdle /\ LoopIdle /\ ClientIdle /\ JwtIdle /\ SessionIdle

ProcInit == /\ proc = NewProcedure /\ pres = NoCall /\ UltraInit /\ LibInit

ProcNext ==
  \/ \E schema \in Schemas : PInput(schema)
  \/ \E schema \in Schemas : POutput(schema)
  \/ \E h \in Handlers : PHandler(h)
  \/ \E mw \in MW : PUse(mw)
  \/ \E input \in Inputs : InvokeWrap(input)
  \/ \E input \in Inputs : InvokeCompiled(input)

SpecProcedure == ProcInit /\ [][ProcNext]_vars

(***************************************************************************)
(* The Ultra builder: routes, use, derive, on.  A builder call is made of  *)
(* an instance whatever its server's state.                                *)
(***************************************************************************)
MaxCalls == 4

(* A builder call whose effect reaches the handlers of a running server:   *)
(* the table is the one build() would make of the instance now.            *)
BuiltThrough(m, u) ==
  /\ calls < MaxCalls
  /\ calls' = calls + 1
  /\ ultra' = Held(ultra, shared, m, u)
  /\ started' = NoStart
  /\ last' = Nothing
  /\ serving' = IF serving[m].running /\ Build(u).error = NoError
                THEN [serving EXCEPT ![m].handlers = Build(u).handlers]
                ELSE serving
  /\ UNCHANGED <<procVars, libVars>>

(* A builder call: it changes the instance, and nothing of what start()    *)
(* handed to serve().                                                      *)
Built(m, u) ==
  /\ calls < MaxCalls
  /\ calls' = calls + 1
  /\ ultra' = Held(ultra, shared, m, u)
  /\ started' = NoStart
  /\ last' = Nothing
  /\ UNCHANGED <<serving, procVars, libVars>>

Routes(m, initializer, middlewares) ==
  /\ Built(m, UltraRoutes(ultra[m], initializer, middlewares))
  /\ UNCHANGED <<uses, shared>>

UseMiddleware(m, mw) ==
  /\ Built(m, UltraUseMiddleware(ultra[m], mw))
  /\ UNCHANGED <<uses, shared>>

UseModule(m, n) ==
  /\ Built(m, UltraMerge(ultra[m], ultra[n]))
  /\ uses' = uses \cup {<<m, n>>}
  /\ shared' = shared \cup {<<m, n, key>> : key \in SharedSets(ultra[m], ultra[n])}

Derive(m, derive) ==
  /\ Built(m, UltraDerive(ultra[m], derive))
  /\ UNCHANGED <<uses, shared>>

DeriveUpgrade(m, derive) ==
  /\ Built(m, UltraDeriveUpgrade(ultra[m], derive))
  /\ UNCHANGED <<uses, shared>>

On(m, listener) ==
  /\ Built(m, UltraOn(ultra[m], listener))
  /\ UNCHANGED <<uses, shared>>

(* start() without the test of this.server: it builds and serves again. *)
StartAgain(m) ==
  /\ \E b \in {Build(ultra[m])} :
       /\ b.error = NoError
       /\ started' = [NoStart EXCEPT !.module = m, !.invoked = b.invoked,
                                     !.notified = ultra[m].events]
       /\ ultra' = [ultra EXCEPT ![m].httpEnabled = b.httpEnabled, ![m].server = "server"]
       /\ serving' = [serving EXCEPT ![m] =
                        [running |-> TRUE, handlers |-> b.handlers,
                         routes |-> b.routes, hasRoutes |-> b.httpEnabled,
                         notFoundMiddlewares |-> ultra[m].middlewares,
                         emitted |-> Append(serving[m].emitted, "server:started")]]
  /\ last' = Nothing
  /\ UNCHANGED <<uses, shared, calls, procVars, libVars>>

(* start() *)
Start(m) ==
  /\ IF ultra[m].server # None
     THEN /\ started' = [NoStart EXCEPT !.module = m, !.warned = TRUE]
          /\ UNCHANGED <<ultra, serving>>
     ELSE \E b \in {Build(ultra[m])} :
            IF b.error # NoError
            THEN /\ started' = [NoStart EXCEPT !.module = m, !.invoked = b.invoked,
                                               !.error = b.error]
                 /\ ultra' = [ultra EXCEPT ![m].httpEnabled = b.httpEnabled]
                 /\ UNCHANGED serving
            ELSE /\ started' = [NoStart EXCEPT !.module = m, !.invoked = b.invoked,
                                               !.notified = ultra[m].events]
                 /\ ultra' = [ultra EXCEPT ![m].httpEnabled = b.httpEnabled,
                                           ![m].server = "server"]
                 /\ serving' = [serving EXCEPT ![m] =
                                  [running |-> TRUE, handlers |-> b.handlers,
                                   routes |-> b.routes, hasRoutes |-> b.httpEnabled,
                                   notFoundMiddlewares |-> ultra[m].middlewares,
                                   emitted |-> Append(serving[m].emitted, "server:started")]]
  /\ last' = Nothing
  /\ UNCHANGED <<uses, shared, calls, procVars, libVars>>

MaxEvents == 3

(* stop(): without a server it logs 'Server is not running'; with one it   *)
(* stops it and emits 'server:stopped'.                                    *)
Stop(m) ==
  /\ IF ultra[m].server = None
     THEN /\ started' = [NoStart EXCEPT !.module = m, !.stop = "not running"]
          /\ UNCHANGED serving
     ELSE /\ Len(serving[m].emitted) < MaxEvents
          /\ started' = [NoStart EXCEPT !.module = m, !.stop = "stopped"]
          /\ serving' = [serving EXCEPT ![m].running = FALSE,
                                        ![m].emitted = Append(@, "server:stopped")]
  /\ last' = Nothing
  /\ UNCHANGED <<ultra, uses, shared, calls, procVars, libVars>>

(***************************************************************************)
(* Requests and messages served by a running instance.                     *)
(***************************************************************************)
Served(m, observed) ==
  /\ serving[m].running
  /\ last' = [observed EXCEPT !.module = m]
  /\ UNCHANGED <<ultra, serving, uses, shared, calls, started, procVars, libVars>>

(* A request arrives at the server. *)
HTTPRequest(m, request) ==
  /\ serving[m].hasRoutes
  /\ \E r \in {Fetch(ultra[m].derived, serving[m], request)} :
       Served(m, [Nothing EXCEPT !.entry = "http", !.request = request, !.tr = r.tr,
                                 !.emitted = r.emitted, !.escaped = r.escaped,
                                 !.response = r.response])

(* An upgrade request arrives at '/ws'; the transport accepts it or not. *)
UpgradeRequest(m, accepts) ==
  /\ serving[m].hasRoutes
  /\ \E r \in {UpgradeRoute(ultra[m].derived, ultra[m].derivedUpgrade, accepts)} :
       Served(m, [Nothing EXCEPT !.entry = "upgrade", !.tr = r.tr, !.emitted = r.emitted,
                                 !.escaped = r.escaped, !.response = r.response,
                                 !.upgrade = r.upgrade])

(* A message arrives on an open socket. *)
WSMessage(m, message) ==
  \E r \in {WSMessageHandler(ultra[m].derived, serving[m], message)} :
    Served(m, [Nothing EXCEPT !.entry = "ws", !.message = message, !.tr = r.tr,
                              !.emitted = r.emitted, !.escaped = r.escaped, !.sent = r.sent])

(* The outcome of client[method](params, { method: httpMethod }) of an HTTP *)
(* client of the server.                                                   *)
HTTPCall(derived, sv, method, params, httpMethod) ==
  Let(HTTPClientRequest(method, params, httpMethod), LAMBDA request :
    IF ~request.ok
    THEN [Nothing EXCEPT !.entry = "httpClient", !.method = method, !.params = params,
                         !.client = request]
    ELSE Let(Fetch(derived, sv, request.v), LAMBDA r :
           [Nothing EXCEPT !.entry = "httpClient", !.method = method, !.params = params,
                           !.request = request.v, !.tr = r.tr, !.emitted = r.emitted,
                           !.escaped = r.escaped, !.response = r.response,
                           !.client = HTTPClientDecode(r.response)]))

(* The outcome of client[method](params) of a WebSocket client. *)
WSCall(derived, sv, method, params) ==
  Let(WSMessageHandler(derived, sv, WSClientMessage(method, params)), LAMBDA r :
    [Nothing EXCEPT !.entry = "wsClient", !.method = method, !.params = params,
                    !.message = WSClientMessage(method, params), !.tr = r.tr,
                    !.emitted = r.emitted, !.escaped = r.escaped, !.sent = r.sent,
                    !.client = WSClientDecode(r.sent)])

HTTPInvoke(m, method, params, httpMethod) ==
  /\ serving[m].hasRoutes
  /\ Served(m, HTTPCall(ultra[m].derived, serving[m], method, params, httpMethod))

WSInvoke(m, method, params) ==
  /\ serving[m].running
  /\ Served(m, WSCall(ultra[m].derived, serving[m], method, params))

Init == /\ proc = NewProcedure /\ pres = NoCall /\ UltraInit /\ LibInit

(***************************************************************************)
(* Composition: a plugin b, a module c that incorporates it and an         *)
(* application a that incorporates both, registers its own procedures, is  *)
(* started and called.                                                     *)
(***************************************************************************)
Apps == {"a"}
Owners == {"a", "b"}
Edges == {<<"a", "b">>, <<"a", "c">>, <<"c", "b">>}
RoutesChoices ==
  {<<"i1", <<>>>>, <<"i1", <<"m3", "m1">>>>, <<"i2", <<>>>>, <<"i3", <<>>>>, <<"i4", <<>>>>}

Next ==
  \/ \E m \in Owners, c \in RoutesChoices : Routes(m, c[1], c[2])
  \/ \E m \in Owners : UseMiddleware(m, "m1")
  \/ \E e \in Edges : UseModule(e[1], e[2])
  \/ \E m \in Owners : Derive(m, "dAuth")
  \/ \E m \in Owners, listener \in Listeners : On(m, listener)
  \/ \E m \in Apps : Start(m)
  \/ \E m \in Apps, method \in {<<"ping">>, <<"users", "list">>} : WSInvoke(m, method, Str("hello"))

Spec == Init /\ [][Next]_vars

(***************************************************************************)
(* One application: its procedures, its global and scoped middleware and   *)
(* its derivation steps, started and called over both transports.          *)
(***************************************************************************)
ServedInitializers == {"i1", "i2"}
ScopedChoices == {<<>>, <<"m3", "m1">>}
GlobalChoices == {"m1", "m2"}

AppNext ==
  \/ \E m \in Apps, initializer \in ServedInitializers, middlewares \in ScopedChoices :
       Routes(m, initializer, middlewares)
  \/ \E m \in Apps, mw \in GlobalChoices : UseMiddleware(m, mw)
  \/ \E m \in Apps, derive \in Derives : Derive(m, derive)
  \/ \E m \in Apps : Start(m)
  \/ \E m \in Apps : HTTPInvoke(m, <<"ping">>, Str("hello"), "POST")
  \/ \E m \in Apps, method \in {<<"ping">>, <<"books", "list">>} :
       WSInvoke(m, method, Str("hello"))

SpecApp == Init /\ [][AppNext]_vars

(***************************************************************************)
(* Serving: a started application and the requests, messages and client    *)
(* calls it serves.                                                        *)
(***************************************************************************)
Params == {Undefined, Str("hello"), Num(7)}
Ids == {<<"1">>, <<"a", "\"", "b">>}

Requests ==
  {Request("POST", EmptyString \o method, FALSE, "application/json", body) :
     method \in {<<"ping">>, <<"books", "drop">>, <<"nope">>},
     body \in {JSONBody(Num(7)), MalformedBody}}
  \cup {Request("GET", EmptyString \o <<"books", "list">>, hasQuery, None, NoBody) :
          hasQuery \in BOOLEAN}

Messages ==
  {Message(TRUE, FALSE, <<Payload(id, method, Str("hello"))>>) :
     id \in Ids, method \in {<<"ping">>, <<"books", "drop">>, <<"nope">>}}
  \cup {Message(FALSE, FALSE, <<>>), Message(TRUE, FALSE, <<NotPayload>>)}

(* The procedures a client calls, with the HTTP method it calls each with. *)
ClientCalls ==
  {<<<<"ping">>, "POST">>, <<<<"books", "list">>, "GET">>, <<<<"users", "list">>, "POST">>}

ServeNext ==
  \/ \E m \in Apps, initializer \in ServedInitializers : Routes(m, initializer, <<>>)
  \/ \E m \in Apps : UseMiddleware(m, "m1")
  \/ \E m \in Apps, derive \in {"dAuth", "dOwner"} : Derive(m, derive)
  \/ \E m \in Apps : Start(m)
  \/ \E m \in Apps, request \in Requests : HTTPRequest(m, request)
  \/ \E m \in Apps, message \in Messages : WSMessage(m, message)
  \/ \E m \in Apps, c \in ClientCalls, params \in Params : HTTPInvoke(m, c[1], params, c[2])
  \/ \E m \in Apps, c \in ClientCalls, params \in Params : WSInvoke(m, c[1], params)

SpecServe == Init /\ [][ServeNext]_vars

(***************************************************************************)
(* Order: a plugin b and an application a register global middleware and   *)
(* derivation steps; c incorporates b, a incorporates b and c; a is        *)
(* started and called.                                                     *)
(***************************************************************************)
OrderNext ==
  \/ \E m \in Owners, mw \in GlobalChoices : UseMiddleware(m, mw)
  \/ \E m \in Owners, derive \in {"dAuth", "dRole"} : Derive(m, derive)
  \/ \E e \in Edges : UseModule(e[1], e[2])
  \/ Routes("a", "i5", <<>>)
  \/ \E m \in Apps : Start(m)
  \/ \E m \in Apps : WSInvoke(m, <<"off">>, Str("hello"))

SpecOrder == Init /\ [][OrderNext]_vars

(***************************************************************************)
(* Lifecycle: an application is declared, started, called and stopped.     *)
(***************************************************************************)
LifeNext ==
  \/ \E m \in Apps, initializer \in ServedInitializers : Routes(m, initializer, <<>>)
  \/ \E m \in Apps, mw \in GlobalChoices : UseMiddleware(m, mw)
  \/ \E m \in Apps, listener \in Listeners : On(m, listener)
  \/ \E m \in Apps : Start(m)
  \/ \E m \in Apps : Stop(m)
  \/ \E m \in Apps : WSInvoke(m, <<"ping">>, Str("hello"))

SpecLife == Init /\ [][LifeNext]_vars

(***************************************************************************)
(* Incorporation: instances that declare initializers with and without     *)
(* scoped middleware, global middleware, derivation and upgrade steps and  *)
(* listeners, incorporate one another, and an application that is started  *)
(* and called.                                                             *)
(***************************************************************************)
UseRoutes == {<<"i1", <<>>>>, <<"i1", <<"m3">>>>, <<"i5", <<>>>>}

UseNext ==
  \/ \E m \in Owners, c \in UseRoutes : Routes(m, c[1], c[2])
  \/ \E m \in Owners : UseMiddleware(m, "m1")
  \/ \E m \in Owners : Derive(m, "dAuth")
  \/ \E m \in Owners : DeriveUpgrade(m, "uSession")
  \/ \E m \in Owners, listener \in Listeners : On(m, listener)
  \/ \E e \in Edges : UseModule(e[1], e[2])
  \/ \E m \in Apps : Start(m)
  \/ \E m \in Apps, method \in {<<"ping">>, <<"off">>} : WSInvoke(m, method, Str("hello"))

SpecUse == Init /\ [][UseNext]_vars

(***************************************************************************)
(* Scopes: a plugin b and an application a that incorporates it, their     *)
(* initializers registered with and without scoped middleware, their       *)
(* global middleware, and the calls the started application serves.        *)
(***************************************************************************)
ScopedRoutes == {<<"i1", <<"m3", "m1">>>>, <<"i5", <<>>>>}

ScopedNext ==
  \/ \E m \in Owners, c \in ScopedRoutes : Routes(m, c[1], c[2])
  \/ \E m \in Owners, mw \in GlobalChoices : UseMiddleware(m, mw)
  \/ UseModule("a", "b")
  \/ \E m \in Apps : Start(m)
  \/ \E m \in Apps, method \in {<<"ping">>, <<"off">>} :
       WSInvoke(m, method, Str("hello"))

SpecScoped == Init /\ [][ScopedNext]_vars

(***************************************************************************)
(* Batches: a started application with context derivation steps, and the   *)
(* messages (one envelope, arrays of envelopes and of other values, texts  *)
(* that do not parse) and requests it serves.                              *)
(***************************************************************************)
(* A value that is an object with an id and no method: { id: '1' } *)
IdOnly == [Payload(<<"1">>, <<>>, Undefined) EXCEPT !.hasMethod = FALSE]

(* A value that is not an object: null, 'rpc', 7 *)
NotObject == [NotPayload EXCEPT !.isObject = FALSE]

BatchMessages ==
  {Message(TRUE, FALSE, <<Payload(<<"1">>, <<"ping">>, Str("hello"))>>),
   Message(TRUE, TRUE, <<Payload(<<"1">>, <<"ping">>, Str("hello"))>>),
   Message(TRUE, TRUE, <<Payload(<<"1">>, <<"ping">>, Str("hello")),
                         Payload(<<"2">>, <<"users", "list">>, Str("hello"))>>),
   Message(TRUE, TRUE, <<IdOnly, Payload(<<"1">>, <<"ping">>, Str("hello")), NotObject,
                         Payload(<<"2">>, <<"nope">>, Str("hello"))>>),
   Message(TRUE, TRUE, <<NotPayload, NotObject>>),
   Message(TRUE, TRUE, <<>>),
   Message(TRUE, FALSE, <<NotPayload>>),
   Message(TRUE, FALSE, <<IdOnly>>),
   Message(TRUE, FALSE, <<NotObject>>),
   Message(FALSE, FALSE, <<>>)}

BatchRequests ==
  {Request("POST", EmptyString \o method, FALSE, "application/json", JSONBody(Num(7))) :
     method \in {<<"ping">>, <<"nope">>}}

BatchNext ==
  \/ \E m \in Apps : Routes(m, "i1", <<>>)
  \/ \E m \in Apps, derive \in Derives : Derive(m, derive)
  \/ \E m \in Apps : Start(m)
  \/ \E m \in Apps, request \in BatchRequests : HTTPRequest(m, request)
  \/ \E m \in Apps, message \in BatchMessages : WSMessage(m, message)

SpecBatch == Init /\ [][BatchNext]_vars

(***************************************************************************)
(* Upgrade: an application with context and upgrade derivation steps, and  *)
(* the upgrade requests it serves once started.                            *)
(***************************************************************************)
UpgradeNext ==
  \/ \E m \in Apps : Routes(m, "i1", <<>>)
  \/ \E m \in Apps, derive \in {"dAuth", "dOwner"} : Derive(m, derive)
  \/ \E m \in Apps, derive \in UpgradeSteps : DeriveUpgrade(m, derive)
  \/ \E m \in Apps : Start(m)
  \/ \E m \in Apps, accepts \in BOOLEAN : UpgradeRequest(m, accepts)

SpecUpgrade == Init /\ [][UpgradeNext]_vars

(***************************************************************************)
(* Exposure: an application constructed with or without                    *)
(* http.enableByDefault, its procedures, and the requests it serves once   *)
(* started.                                                                *)
(***************************************************************************)
ExposureInitializers == {"i1", "i2", "i5"}

ExposureRequests ==
  {Request("POST", EmptyString \o method, FALSE, "application/json", JSONBody(Num(7))) :
     method \in {<<"ping">>, <<"users", "list">>, <<"off">>}}

ExposureInit ==
  /\ proc = NewProcedure /\ pres = NoCall
  /\ ultra \in {[m \in Modules |-> NewUltraWith([enableByDefault |-> enableByDefault])] :
                  enableByDefault \in BOOLEAN}
  /\ serving = [m \in Modules |-> NotServing]
  /\ uses = {}
  /\ shared = {}
  /\ calls = 0
  /\ started = NoStart
  /\ last = Nothing
  /\ LibInit

ExposureNext ==
  \/ \E m \in Apps, initializer \in ExposureInitializers : Routes(m, initializer, <<>>)
  \/ \E m \in Apps : Start(m)
  \/ \E m \in Apps, request \in ExposureRequests : HTTPRequest(m, request)

SpecExposure == ExposureInit /\ [][ExposureNext]_vars

(***************************************************************************)
(* The message entry: an application constructed with or without           *)
(* http.enableByDefault, its procedures, and the upgrade requests and the  *)
(* messages it is sent once started.                                       *)
(***************************************************************************)
EntryNext ==
  \/ \E m \in Apps, initializer \in ExposureInitializers : Routes(m, initializer, <<>>)
  \/ \E m \in Apps : Start(m)
  \/ \E m \in Apps, accepts \in BOOLEAN : UpgradeRequest(m, accepts)
  \/ \E m \in Apps, method \in {<<"ping">>, <<"users", "list">>, <<"off">>} :
       WSInvoke(m, method, Str("hello"))

SpecEntry == ExposureInit /\ [][EntryNext]_vars

(***************************************************************************)
(* The response conversions applied to the values a handler can return or  *)
(* throw.                                                                  *)
(***************************************************************************)
Data ==
  {Undefined, Null, Str(""), Str("hi"), Num(0), Num(42), Bool(FALSE), Bool(TRUE),
   Obj("{\"hello\":\"world\"}"), Val("bigint", "", 123, ""),
   ErrorVal("boom"), ValidationError("nope"), UnauthorizedError,
   UltraError("down", "ServiceError", 500),
   ResponseVal("ok", 201, ""), ResponseVal("nope", 400, "Bad Request")}

ConvIds == Ids \cup {<<"7">>}

ConvInit ==
  /\ proc = NewProcedure /\ pres = NoCall /\ UltraInit
  /\ conv \in {[NoConversion EXCEPT !.id = id, !.data = data] : id \in ConvIds, data \in Data}
  /\ CryptoIdle /\ CorsIdle /\ LoopIdle /\ ClientIdle /\ JwtIdle /\ SessionIdle

(* toHTTPResponse(data) *)
ToHTTP ==
  /\ conv.op = None
  /\ conv' = [conv EXCEPT !.op = "http", !.response = toHTTPResponse(conv.data)]
  /\ UNCHANGED <<procVars, ultraVars, crypto, cors, loop, client, jwt, session>>

(* toRPCResponse(id, data) *)
ToRPC ==
  /\ conv.op = None
  /\ conv' = [conv EXCEPT !.op = "rpc", !.frame = toRPCResponse(conv.id, conv.data)]
  /\ UNCHANGED <<procVars, ultraVars, crypto, cors, loop, client, jwt, session>>

ConvNext == ToHTTP \/ ToRPC

SpecConvert == ConvInit /\ [][ConvNext]_vars

(***************************************************************************)
(* Signed values: a value is signed, the signed string is handed on as it  *)
(* is or changed on the way, and is unsigned with a secret.                *)
(***************************************************************************)
Values == {<<>>, <<"a">>, <<"a", "b">>}
Secrets == {"0123", "fedc"}
Tamperings == {"signature", "longer", "payload", "cut", "more"}

CryptoInit ==
  /\ proc = NewProcedure /\ pres = NoCall /\ UltraInit /\ ConvIdle /\ CorsIdle /\ LoopIdle
  /\ ClientIdle /\ JwtIdle /\ SessionIdle
  /\ crypto \in {[NoSigned EXCEPT !.value = value, !.secret = secret] :
                   value \in Values, secret \in Secrets}

Sign ==
  /\ crypto.op = None
  /\ crypto' = [crypto EXCEPT !.op = "sign",
                               !.signedValue = sign(crypto.value, crypto.secret)]
  /\ UNCHANGED <<procVars, ultraVars, conv, cors, loop, client, jwt, session>>

(* The signed string as someone else hands it back. *)
Tampered(signedValue, how) ==
  CASE how = "signature" -> <<signedValue[1], <<Chr("bad")>>>>
    [] how = "longer" -> <<signedValue[1], signedValue[2] \o <<Chr("x")>>>>
    [] how = "payload" -> <<ToBase64(<<"b">>), signedValue[2]>>
    [] how = "cut" -> <<signedValue[1]>>
    [] OTHER -> signedValue \o <<<<Chr("x")>>>>

Tamper(how) ==
  /\ crypto.op = "sign"
  /\ crypto' = [crypto EXCEPT !.op = "tamper", !.tampered = how,
                               !.signedValue = Tampered(crypto.signedValue, how)]
  /\ UNCHANGED <<procVars, ultraVars, conv, cors, loop, client, jwt, session>>

Unsign(secret) ==
  /\ crypto.op \in {"sign", "tamper"}
  /\ crypto' = [crypto EXCEPT !.op = "unsign", !.with = secret,
                               !.result = unsign(crypto.signedValue, secret)]
  /\ UNCHANGED <<procVars, ultraVars, conv, cors, loop, client, jwt, session>>

CryptoNext ==
  \/ Sign
  \/ \E how \in Tamperings : Tamper(how)
  \/ \E secret \in Secrets : Unsign(secret)

SpecCrypto == CryptoInit /\ [][CryptoNext]_vars

(***************************************************************************)
(* An application with the CORS middleware registered globally: the        *)
(* requests it serves, by Origin header, method and the procedure routed.  *)
(***************************************************************************)
Origins == {None, "http://allowed.com", "http://also-allowed.com", "http://disallowed.com"}
CorsMethods == {"GET", "POST", "OPTIONS"}
CorsProcedures ==
  {ProcHandler(IF mw = None THEN ProcHttp(NewProcedure, None)
               ELSE ProcUse(ProcHttp(NewProcedure, None), mw), h) :
     mw \in {None, "m1", "guard"}, h \in Handlers}

CorsInit == /\ proc = NewProcedure /\ pres = NoCall /\ UltraInit /\ LibInit

CorsRequest(origin, method, p) ==
  /\ \E r \in {CorsHTTPHandler(CorsConfig, p, origin, method, Str("hello"))} :
       cors' = [origin |-> origin, method |-> method, procedure |-> p, tr |-> r.tr,
                emitted |-> r.emitted, response |-> r.response, headers |-> r.headers]
  /\ UNCHANGED <<procVars, ultraVars, conv, crypto, loop, client, jwt, session>>

CorsNext ==
  \E origin \in Origins, method \in CorsMethods, p \in CorsProcedures :
    CorsRequest(origin, method, p)

SpecCors == CorsInit /\ [][CorsNext]_vars

(***************************************************************************)
(* Invocations in flight.  A context is an object of the heap (objects),   *)
(* held by reference (its index); an invocation that reached an await is a *)
(* task, which goes on when what it awaits settles.  The application       *)
(* served:                                                                 *)
(*   tag = async (o) => { o.context.role = o.input; return o.next() }      *)
(*   { whoami: input().http().use(tag).handler(async (o) => {              *)
(*               await pause(); return o.context.role }),                  *)
(*     hang: input().handler(() => new Promise(() => {})) }                *)
(***************************************************************************)
MaxTasks == 4
MaxArrivals == 3

LoopProcedures == {<<"whoami">>, <<"hang">>}

(* The wrapped handler called with { input, context }, up to its first     *)
(* await: the heap once the middleware ran.  { ...options, next } copies   *)
(* the reference to the context, so tag writes into the caller's object.   *)
Invoked(objects, method, input, context) ==
  IF method = <<"whoami">> THEN [objects EXCEPT ![context]["role"] = input.s] ELSE objects

(* The promise the handler returned: pending for good, or until pause()    *)
(* settles.                                                                *)
Task(entry, arrival, id, method, input, context) ==
  [entry |-> entry, arrival |-> arrival, id |-> id, method |-> method, input |-> input,
   context |-> context, state |-> IF method = <<"hang">> THEN "never" ELSE "awaiting",
   result |-> Undefined]

(* handleRPC, up to its first await. *)
BeginRPC(l, rpc, context) ==
  IF rpc.method \notin LoopProcedures
  THEN [l EXCEPT !.sent = Append(@, NotFoundFrame(rpc.id))]
  ELSE [l EXCEPT !.objects = Invoked(@, rpc.method, rpc.params, context),
                 !.tasks = Append(@, Task("ws", l.arrivals, rpc.id, rpc.method, rpc.params,
                                           context))]

(* for (const rpc of rpcs) this.handleRPC(handlers.get(rpc.method), ws, rpc, context) *)
RECURSIVE DispatchAll(_, _, _)
DispatchAll(l, rpcs, context) ==
  IF rpcs = <<>> THEN l
  ELSE DispatchAll(BeginRPC(l, Head(rpcs), context), Tail(rpcs), context)

(* websocket.message, up to the awaits of its handlers: one context object *)
(* { server, ws } for the message.                                         *)
MessageBegun(l, message) ==
  IF ~message.wellformed \/ RPCsOf(message) = <<>> THEN [l EXCEPT !.arrivals = @ + 1]
  ELSE DispatchAll([l EXCEPT !.arrivals = @ + 1, !.objects = Append(@, WSContext)],
                   RPCsOf(message), Len(l.objects) + 1)

(* HTTPHandler of a procedure, up to the await of its handler: one context *)
(* object { server, request } for the request.                             *)
RequestBegun(l, method, input) ==
  LET context == Len(l.objects) + 1 IN
  [l EXCEPT !.arrivals = @ + 1,
            !.objects = Invoked(Append(@, HTTPContext), method, input, context),
            !.tasks = Append(@, Task("http", l.arrivals + 1, <<>>, method, input, context))]

(* The continuation of a task runs only when the earlier tasks of its      *)
(* message are done (each handleRPC awaited by the loop).                  *)
RunnableInTurn(tasks, t) ==
  /\ t \in 1..Len(tasks)
  /\ tasks[t].state = "awaiting"
  /\ \A u \in 1..(t - 1) : tasks[u].arrival = tasks[t].arrival => tasks[u].state = "done"

(* The continuation of a task runs when what it awaits settles: the        *)
(* promises of handleRPC are not awaited by the loop of the message.       *)
Runnable(tasks, t) ==
  /\ t \in 1..Len(tasks)
  /\ tasks[t].state = "awaiting"

(* The rest of the handler of a task: it reads the context, returns, and   *)
(* handleRPC sends the frame (the route handler returns the response).     *)
Settled(l, t) ==
  LET task == l.tasks[t]
      result == Str(l.objects[task.context]["role"]) IN
  [l EXCEPT !.tasks[t].state = "done", !.tasks[t].result = result,
            !.sent = IF task.entry = "ws" THEN Append(@, toRPCResponse(task.id, result))
                     ELSE @]

LoopMessages ==
  {Message(TRUE, TRUE, <<Payload(<<"1">>, <<"whoami">>, Str("alice"))>>),
   Message(TRUE, TRUE, <<Payload(<<"1">>, <<"whoami">>, Str("alice")),
                         Payload(<<"2">>, <<"whoami">>, Str("bob"))>>),
   Message(TRUE, TRUE, <<Payload(<<"1">>, <<"hang">>, Str("alice")),
                         Payload(<<"2">>, <<"whoami">>, Str("bob")),
                         Payload(<<"3">>, <<"whoami">>, Str("bob"))>>),
   Message(TRUE, TRUE, <<Payload(<<"1">>, <<"nope">>, Str("alice")),
                         Payload(<<"2">>, <<"whoami">>, Str("bob"))>>)}

LoopInputs == {Str("alice"), Str("bob")}

(* A message arrives on an open socket. *)
MessageArrives(message) ==
  /\ loop.arrivals < MaxArrivals
  /\ Len(loop.tasks) + Len(RPCsOf(message)) <= MaxTasks
  /\ loop' = MessageBegun(loop, message)
  /\ UNCHANGED <<procVars, ultraVars, conv, crypto, cors, client, jwt, session>>

(* POST /whoami arrives. *)
RequestArrives(input) ==
  /\ loop.arrivals < MaxArrivals
  /\ Len(loop.tasks) < MaxTasks
  /\ loop' = RequestBegun(loop, <<"whoami">>, input)
  /\ UNCHANGED <<procVars, ultraVars, conv, crypto, cors, client, jwt, session>>

(* What a task awaits settles. *)
Settle(t) ==
  /\ Runnable(loop.tasks, t)
  /\ loop' = Settled(loop, t)
  /\ UNCHANGED <<procVars, ultraVars, conv, crypto, cors, client, jwt, session>>

LoopNext ==
  \/ \E message \in LoopMessages : MessageArrives(message)
  \/ \E input \in LoopInputs : RequestArrives(input)
  \/ \E t \in 1..MaxTasks : Settle(t)

SpecLoop == Init /\ [][LoopNext]_vars

(* A timer that was set fires: what a task awaits settles in the end. *)
LoopFairness == \A t \in 1..MaxTasks : WF_vars(Settle(t))

SpecLoopFair == SpecLoop /\ LoopFairness

(***************************************************************************)
(* The WebSocket client: calls are made, timers fire, frames arrive, the   *)
(* socket closes and a new one is opened.                                  *)
(***************************************************************************)
ClientMethods == {<<"hello">>}

(* The ids of the envelopes handed to socket.send so far. *)
Transmitted(c) ==
  {c.sent[i].items[j].id : <<i, j>> \in {p \in (1..Len(c.sent)) \X (1..MaxClientCalls) :
                                           p[2] <= Len(c.sent[p[1]].items)}}

(* What may arrive: a result or an error for an id that was transmitted or *)
(* for an id of no call, and a frame that is no JSON.                      *)
NotJSON == [ResultFrame(<<>>, Undefined) EXCEPT !.wellformed = FALSE]

ClientFrames ==
  UNION {{ResultFrame(id, Str(<<"o", "k">>)), ErrorFrame(id, 404, "Not found")} :
           id \in {makeId(n) : n \in 1..MaxClientCalls} \cup {ForeignId}}
    \cup {NotJSON}

(* client.method(params) *)
ClientInvoke(method) ==
  /\ client.made < MaxClientCalls
  /\ client' = invoke(client, method)
  /\ UNCHANGED <<procVars, ultraVars, conv, crypto, cors, loop, jwt, session>>

(* The timer set by invoke fires: send() *)
BatchTimerFires ==
  /\ client.batchTimeout
  /\ client' = send(client, 0)
  /\ UNCHANGED <<procVars, ultraVars, conv, crypto, cors, loop, jwt, session>>

(* A timer set by send or by a close listener fires: send(retry) *)
RetryTimerFires(retry) ==
  /\ client.retries[retry] > 0
  /\ client' = send([client EXCEPT !.retries[retry] = @ - 1], retry)
  /\ UNCHANGED <<procVars, ultraVars, conv, crypto, cors, loop, jwt, session>>

(* The timeout of a request that is still outstanding elapses. *)
TimeoutFires(n) ==
  /\ \E i \in 1..Len(client.requests) :
       client.requests[i].call = n /\ client.requests[i].timeout
  /\ client' = TimedOut(client, n)
  /\ UNCHANGED <<procVars, ultraVars, conv, crypto, cors, loop, jwt, session>>

(* A listener on the socket is handed a response whose id none of the      *)
(* outstanding requests has.                                               *)
PassedOver(c, frame) ==
  /\ frame.wellformed /\ c.socket.message > 0 /\ c.requests # <<>>
  /\ FindIndex(c.requests, frame.id) = 0

(* A frame arrives on the open socket. *)
Receive(frame) ==
  /\ client.socket.open
  /\ frame.wellformed => frame.id \in Transmitted(client) \cup {ForeignId}
  /\ client' = [Dispatched(client, frame, client.socket.message)
                EXCEPT !.passedOver = @ \/ PassedOver(client, frame)]
  /\ UNCHANGED <<procVars, ultraVars, conv, crypto, cors, loop, jwt, session>>

(* The socket closes. *)
SocketCloses ==
  /\ client.socket.open
  /\ client.closes < MaxCloses
  /\ client' = Closed(client)
  /\ UNCHANGED <<procVars, ultraVars, conv, crypto, cors, loop, jwt, session>>

(* The application connects again. *)
SocketOpens ==
  /\ ~client.socket.open
  /\ client' = [client EXCEPT !.socket = NewSocket]
  /\ UNCHANGED <<procVars, ultraVars, conv, crypto, cors, loop, jwt, session>>

ClientNext ==
  \/ \E method \in ClientMethods : ClientInvoke(method)
  \/ BatchTimerFires
  \/ \E retry \in 0..retryCount : RetryTimerFires(retry)
  \/ \E n \in 1..MaxClientCalls : TimeoutFires(n)
  \/ \E frame \in ClientFrames : Receive(frame)
  \/ SocketCloses
  \/ SocketOpens

SpecClient == Init /\ [][ClientNext]_vars

(* A timeout that was set and not cleared elapses in the end. *)
ClientFairness == \A n \in 1..MaxClientCalls : WF_vars(TimeoutFires(n))

SpecClientFair == SpecClient /\ ClientFairness

(***************************************************************************)
(* A token is made, handed on (as it is, or changed), and verified.        *)
(***************************************************************************)
MaxSeconds == 3

JWTPayloads ==
  {JWTPayload(iat, hasExp, exp, hasNbf, nbf) :
     iat \in 0..1, hasExp \in BOOLEAN, exp \in 0..MaxSeconds,
     hasNbf \in BOOLEAN, nbf \in 0..MaxSeconds}

(* How the token comes back. *)
Handings == {"other key", "short", "no signature", "two parts", "empty payload", "one more part",
             "no JSON", "other payload"}

Handed(token, secret, how) ==
  CASE how = "other key" ->
         <<token[1], token[2], JWTSignature("wrong-secret", token[1], token[2])>>
    [] how = "short" -> <<token[1], token[2], TextPart("short")>>
    [] how = "no signature" -> <<token[1], token[2], EmptyPart>>
    [] how = "two parts" -> <<token[1], token[2]>>
    [] how = "empty payload" -> <<token[1], EmptyPart, token[3]>>
    [] how = "one more part" -> token \o <<TextPart("part4")>>
    [] how = "no JSON" ->
         <<token[1], TextPart("part2"), JWTSignature(secret, token[1], TextPart("part2"))>>
    [] OTHER ->
         <<token[1], JSONPart(JWTPayload(0, FALSE, 0, FALSE, 0)), token[3]>>

(* createJWT(payload, secret) *)
CreateJWT(payload, secret) ==
  /\ jwt.op = None
  /\ jwt' = [jwt EXCEPT !.op = "create", !.secret = secret,
                        !.token = createJWT(payload, secret)]
  /\ UNCHANGED <<procVars, ultraVars, conv, crypto, cors, loop, client, session>>

(* Someone else hands the token back, changed. *)
HandOn(how) ==
  /\ jwt.op = "create"
  /\ jwt' = [jwt EXCEPT !.op = "hand", !.how = how,
                        !.token = Handed(jwt.token, jwt.secret, how)]
  /\ UNCHANGED <<procVars, ultraVars, conv, crypto, cors, loop, client, session>>

(* verifyJWT(token, secret) in the second nowSeconds *)
VerifyJWT(secret, nowSeconds) ==
  /\ jwt.op \in {"create", "hand"}
  /\ jwt' = [jwt EXCEPT !.op = "verify", !.with = secret, !.nowSeconds = nowSeconds,
                        !.result = verifyJWT(jwt.token, secret, nowSeconds)]
  /\ UNCHANGED <<procVars, ultraVars, conv, crypto, cors, loop, client, session>>

JwtNext ==
  \/ \E payload \in JWTPayloads, secret \in Secrets : CreateJWT(payload, secret)
  \/ \E how \in Handings : HandOn(how)
  \/ \E secret \in Secrets, nowSeconds \in 0..MaxSeconds : VerifyJWT(secret, nowSeconds)

SpecJwt == Init /\ [][JwtNext]_vars

(***************************************************************************)
(* Sessions: a client with a cookie jar and one WebSocket connection calls *)
(* an application that uses createSessionModule(config) with the memory    *)
(* store.  An invocation is the session middleware around a handler: the   *)
(* Session is made and initiated, the handler changes it, it is committed. *)
(***************************************************************************)
Fresh == SessionMakeId(session.made + 1)

(* derive: new Session(config, context); use: session.initiate() *)
Initiated(s, protocol, fromClient) ==
  /\ session.opened < MaxOpened
  /\ fromClient = NoId => session.made < MaxIds
  /\ LET r == initiate(NewSession(protocol, fromClient, Fresh, session.now),
                       session.memoryStore, session.now)
     IN session' = [session EXCEPT !.invocations[s] = r.ses, !.memoryStore = r.map,
                                   !.made = IF fromClient = NoId THEN @ + 1 ELSE @,
                                   !.opened = @ + 1]
  /\ UNCHANGED <<procVars, ultraVars, conv, crypto, cors, loop, client, jwt>>

(* A request over HTTP with the cookie the client has. *)
SessionHTTP(s) ==
  /\ session.invocations[s].protocol = None
  /\ Initiated(s, "http",
               IF session.cookie # NoCookie THEN UnsignedId(session.cookie) ELSE NoId)

(* A message on the connection: ws.data.sessionId || null *)
SessionWS(s) ==
  /\ session.invocations[s].protocol = None
  /\ session.ws.open
  /\ Initiated(s, "ws", session.ws.sessionId)

(* The upgrade request: deriveUpgrade gives data.sessionId and Set-Cookie. *)
SessionUpgrade ==
  /\ ~session.ws.open
  /\ getOrCreateId(session.cookie, NoId) = NoId => session.made < MaxIds
  /\ LET sessionId == getOrCreateId(session.cookie, Fresh)
     IN session' = [session EXCEPT !.ws = [open |-> TRUE, sessionId |-> sessionId],
                                   !.cookie = sign(sessionId, SessionSecret),
                                   !.made = IF sessionId = Fresh THEN @ + 1 ELSE @,
                                   !.regenerated.ws = NoRegenerated]
  /\ UNCHANGED <<procVars, ultraVars, conv, crypto, cors, loop, client, jwt>>

(* What a handler does with context.session. *)
Handles(s, ses) ==
  /\ session' = [session EXCEPT !.invocations[s] = ses]
  /\ UNCHANGED <<procVars, ultraVars, conv, crypto, cors, loop, client, jwt>>

(* set(key, value) *)
SessionSet(s, key) ==
  /\ session.invocations[s].protocol # None
  /\ Handles(s, [session.invocations[s] EXCEPT !.sessionState = @ \cup {key}, !.modified = TRUE])

(* delete(key) *)
SessionDelete(s, key) ==
  /\ session.invocations[s].protocol # None
  /\ Handles(s, [session.invocations[s] EXCEPT !.sessionState = @ \ {key}, !.modified = TRUE])

(* clear() *)
SessionClear(s) ==
  /\ session.invocations[s].protocol # None
  /\ Handles(s, [session.invocations[s] EXCEPT !.sessionState = {}, !.modified = TRUE])

(* regenerate() *)
SessionRegenerate(s) ==
  /\ session.invocations[s].protocol # None
  /\ session.made < MaxIds
  /\ session' = [session EXCEPT !.invocations[s].sessionId = Fresh,
                                !.invocations[s].replaced = @ \cup {session.invocations[s].sessionId},
                                !.replaced = @ \cup {session.invocations[s].sessionId},
                                !.made = @ + 1]
  /\ UNCHANGED <<procVars, ultraVars, conv, crypto, cors, loop, client, jwt>>

(* SessionAuthProvider.login(user): setUser(user); session.regenerate() *)
Login(s) ==
  /\ session.invocations[s].protocol # None
  /\ session.made < MaxIds
  /\ session' = [session EXCEPT !.invocations[s].sessionState = @ \cup {"user"},
                                !.invocations[s].modified = TRUE,
                                !.invocations[s].sessionId = Fresh,
                                !.invocations[s].replaced = @ \cup {session.invocations[s].sessionId},
                                !.replaced = @ \cup {session.invocations[s].sessionId},
                                !.made = @ + 1]
  /\ UNCHANGED <<procVars, ultraVars, conv, crypto, cors, loop, client, jwt>>

(* session.commit() after next(): touch() sets the cookie of an HTTP       *)
(* response; then the store is written.  regenerated keeps, for the client *)
(* of the invocation, the id a regenerated session was written under and   *)
(* the cookie the client had then.                                         *)
SessionCommit(s) ==
  /\ session.invocations[s].protocol # None
  /\ LET ses == session.invocations[s]
         map == commit(ses, session.memoryStore, session.now)
         cookie == IF ses.protocol = "http" THEN sign(ses.sessionId, SessionSecret)
                   ELSE session.cookie
     IN session' = [session EXCEPT
                      !.memoryStore = map,
                      !.cookie = cookie,
                      !.invocations[s] = NoSession,
                      !.regenerated[ses.protocol] =
                         IF ses.replaced # {} /\ map[ses.sessionId].present
                         THEN [sessionId |-> ses.sessionId, cookie |-> cookie]
                         ELSE NoRegenerated]
  /\ UNCHANGED <<procVars, ultraVars, conv, crypto, cors, loop, client, jwt>>

(* The time to live passes. *)
Tick ==
  /\ session.now < MaxTicks * ttlMs
  /\ session' = [session EXCEPT !.now = @ + ttlMs]
  /\ UNCHANGED <<procVars, ultraVars, conv, crypto, cors, loop, client, jwt>>

SessionNext ==
  \/ \E s \in Slots : SessionHTTP(s)
  \/ \E s \in Slots : SessionWS(s)
  \/ SessionUpgrade
  \/ \E s \in Slots, key \in SessionKeys : SessionSet(s, key)
  \/ \E s \in Slots, key \in SessionKeys : SessionDelete(s, key)
  \/ \E s \in Slots : SessionClear(s)
  \/ \E s \in Slots : SessionRegenerate(s)
  \/ \E s \in Slots : Login(s)
  \/ \E s \in Slots : SessionCommit(s)
  \/ Tick

SpecSession == Init /\ [][SessionNext]_vars

(***************************************************************************)
(* Properties of the procedure and of the middleware composers.            *)
(***************************************************************************)
AllOnce(mws) == \A i \in 1..Len(mws) : MwKind(mws[i]) = "once"

(* The enter / handler / exit steps of a trace, in order. *)
Steps(tr) ==
  LET kept == SelectSeq(tr, LAMBDA e : e.ev # "validate") IN
  [i \in 1..Len(kept) |-> <<kept[i].ev, kept[i].who>>]

(* m1-enter, ..., mn-enter, h, mn-exit, ..., m1-exit *)
Onion(mws, h) ==
  LET n == Len(mws) IN
  [i \in 1..(2 * n + 1) |->
     IF i <= n THEN <<"enter", mws[i]>>
     ELSE IF i = n + 1 THEN <<"handler", h>>
     ELSE <<"exit", mws[2 * n + 2 - i]>>]

HandlerEvents(tr) == {i \in 1..Len(tr) : tr[i].ev = "handler"}

(* C3: when every middleware of the chain calls next() once and awaits it, *)
(* a call that returns runs m1-enter, ..., mn-enter, h, mn-exit, ...,      *)
(* m1-exit, both for procedure.wrap() and for wrapHandler(compile(), set). *)
C3_OnionOrder ==
  (pres.via # None /\ pres.err = NoError /\ AllOnce(proc.middlewares) /\ pres.out.ok)
    => Steps(pres.tr) = Onion(proc.middlewares, proc.handlerFunction)

C3_Witness ==
  /\ pres.via = "wrap" /\ pres.out.ok
  /\ proc.middlewares = <<"m2", "m3", "m1">>
  /\ Steps(pres.tr) = <<<<"enter", "m2">>, <<"enter", "m3">>, <<"enter", "m1">>,
                        <<"handler", "echo">>,
                        <<"exit", "m1">>, <<"exit", "m3">>, <<"exit", "m2">>>>

(* C5: with schemas set, the handler only runs after the input schema      *)
(* accepted the raw input and is given the schema's output, not the raw    *)
(* value; a value the handler chain returns to the caller is the output    *)
(* schema's output; a rejected input means no handler call, and a rejected *)
(* handler result means the call throws ValidationError.                   *)
C5_ValidationOrder ==
  (pres.via # None /\ pres.err = NoError) =>
    /\ proc.inputSchema # None =>
         /\ \A i \in HandlerEvents(pres.tr) :
              /\ SchemaAccepts(proc.inputSchema, pres.input)
              /\ pres.tr[i].input = [pres.input EXCEPT !.mark = <<proc.inputSchema>>]
              /\ pres.tr[i].input # pres.input
              /\ \E j \in 1..(i - 1) :
                   pres.tr[j].ev = "validate" /\ pres.tr[j].who = proc.inputSchema
         /\ ~SchemaAccepts(proc.inputSchema, pres.input) => HandlerEvents(pres.tr) = {}
    /\ proc.outputSchema # None =>
         \A i \in HandlerEvents(pres.tr) :
           LET result == RunHandler(proc.handlerFunction,
                                    Options(pres.tr[i].input, pres.tr[i].context)).out IN
           /\ pres.out.ok
                => /\ pres.out.v.mark # <<>>
                   /\ pres.out.v.mark[Len(pres.out.v.mark)] = proc.outputSchema
                   /\ \E k \in HandlerEvents(pres.tr) :
                        pres.out = Validate(proc.outputSchema,
                                            RunHandler(proc.handlerFunction,
                                                       Options(pres.tr[k].input,
                                                               pres.tr[k].context)).out.v)
           /\ (result.ok /\ ~SchemaAccepts(proc.outputSchema, result.v))
                => pres.out = Thrown(ValidationError("issues"))

C5_Witness ==
  /\ pres.via = "compile" /\ pres.err = NoError
  /\ proc.inputSchema = "sAny" /\ proc.outputSchema = "sString"
  /\ proc.handlerFunction = "echo" /\ pres.input = Num(7)
  /\ HandlerEvents(pres.tr) # {}
  /\ pres.out = Thrown(ValidationError("issues"))

(***************************************************************************)
(* Properties of composition and build.                                    *)
(***************************************************************************)
NoDuplicates(seq) == \A i, j \in 1..Len(seq) : seq[i] = seq[j] => i = j

Range(seq) == {seq[i] : i \in 1..Len(seq)}

Count(tr, ev, who) == Cardinality({i \in 1..Len(tr) : tr[i].ev = ev /\ tr[i].who = who})

(* The procedures of a ProceduresMap with their '/'-joined paths, by       *)
(* structural recursion over the tree.                                     *)
RECURSIVE Flatten(_, _)
Flatten(entries, prefix) ==
  IF entries = <<>> THEN <<>>
  ELSE LET e == Head(entries)
           path == IF prefix = <<>> THEN e.key ELSE NextPath(prefix, e.key) IN
       (IF e.value.isProcedure THEN <<[path |-> path, p |-> e.value.p]>>
        ELSE Flatten(e.value.entries, path))
       \o Flatten(Tail(entries), prefix)

RECURSIVE Operations(_, _)
Operations(u, k) ==
  IF k > Len(u.initializers) THEN <<>>
  ELSE Flatten(InitializerMap(u.initializers[k].initializer, u.options.enableByDefault), <<>>)
       \o Operations(u, k + 1)

(* The paths two operations of the instance flatten to. *)
DuplicatedPaths(u) ==
  LET ops == Operations(u, 1) IN
  {ops[i].path : i \in {i \in 1..Len(ops) : \E j \in 1..Len(ops) : j # i /\ ops[j].path = ops[i].path}}

(* The paths of the operations of the instance that have no handler. *)
HandlerlessPaths(u) ==
  LET ops == Operations(u, 1) IN
  {ops[i].path : i \in {i \in 1..Len(ops) : ops[i].p.handlerFunction = None}}

(* start() ran build() (the server was not running yet). *)
BuiltBy(m) == started.module = m /\ ~started.warned

(* C1: however the initializers, middleware, derivation steps and          *)
(* listeners reached an instance (registered twice, merged twice, merged   *)
(* directly and through another module), its build invokes each            *)
(* initializer once, its dispatch table holds each path and, per entry,    *)
(* each middleware once, start notifies each listener once, and one call   *)
(* runs each middleware of its entry, each derivation step and the handler *)
(* exactly once.                                                           *)
C1_Deduplicated ==
  \A m \in Modules :
    /\ BuiltBy(m) =>
         /\ NoDuplicates(started.invoked)
         /\ NoDuplicates(started.notified)
         /\ started.error = NoError =>
              /\ Range(started.invoked) = {ultra[m].initializers[k].initializer :
                                             k \in 1..Len(ultra[m].initializers)}
              /\ Range(started.notified) = Range(ultra[m].events)
    /\ NoDuplicates([i \in 1..Len(serving[m].handlers) |-> serving[m].handlers[i].path])
    /\ \A i \in 1..Len(serving[m].handlers) : NoDuplicates(serving[m].handlers[i].middlewares)
    /\ (last.module = m /\ last.entry = "wsClient") =>
         /\ \A d \in Range(ultra[m].derived) : Count(last.tr, "derive", d) = 1
         /\ \A d \in Derives \ Range(ultra[m].derived) : Count(last.tr, "derive", d) = 0
         /\ \A i \in 1..Len(serving[m].handlers) :
              serving[m].handlers[i].path = last.method =>
                /\ \A mw \in Range(serving[m].handlers[i].middlewares) :
                     Count(last.tr, "enter", mw) = 1 /\ Count(last.tr, "exit", mw) = 1
                /\ \A mw \in MW \ Range(serving[m].handlers[i].middlewares) :
                     Count(last.tr, "enter", mw) = 0
                /\ \A h \in Handlers :
                     Count(last.tr, "handler", h) =
                       IF h = serving[m].handlers[i].procedure.handlerFunction THEN 1 ELSE 0

C1_Witness ==
  /\ {<<"a", "b">>, <<"a", "c">>, <<"c", "b">>} \subseteq uses
  /\ ultra["b"].initializers = <<[initializer |-> "i1", middlewares |-> <<"m3", "m1">>]>>
  /\ ultra["c"].initializers = ultra["b"].initializers
  /\ ultra["a"].initializers = ultra["b"].initializers
  /\ started.module = "a" /\ started.invoked = <<"i1">> /\ started.error = NoError
  /\ last.entry = "wsClient" /\ last.method = <<"ping">>
  /\ Count(last.tr, "enter", "m1") = 1 /\ Count(last.tr, "handler", "echo") = 1
  /\ last.client = Returned(Str("hello"))

AlreadyExistsNamed(error, paths) ==
  /\ error.message = "Procedure \"%\" already exists"
  /\ Len(error.args) = 1
  /\ error.args[1] \in paths

(* C2 as stated: when two operations of an instance flatten to the same    *)
(* path, build throws an error naming that path, no server is started and  *)
(* no dispatch table is produced.                                          *)
C2_ConflictNamesPath ==
  \A m \in Modules :
    (BuiltBy(m) /\ DuplicatedPaths(ultra[m]) # {}) =>
      /\ AlreadyExistsNamed(started.error, DuplicatedPaths(ultra[m]))
      /\ ultra[m].server = None
      /\ serving[m] = NotServing

(* C2 as amended: when two operations of an instance flatten to the same   *)
(* path, build throws, no server is started and no dispatch table is       *)
(* produced; the error names a duplicated path, unless an operation        *)
(* without a handler was compiled before the duplicate was reached, and    *)
(* then it is 'Procedure handler is not defined'.                          *)
C2_ConflictThrows ==
  \A m \in Modules :
    (BuiltBy(m) /\ DuplicatedPaths(ultra[m]) # {}) =>
      /\ \/ AlreadyExistsNamed(started.error, DuplicatedPaths(ultra[m]))
         \/ started.error = HandlerNotDefined /\ HandlerlessPaths(ultra[m]) # {}
      /\ ultra[m].server = None
      /\ serving[m] = NotServing

C2_Witness ==
  /\ started.module = "a" /\ ~started.warned
  /\ <<"a", "b">> \in uses
  /\ started.error = AlreadyExists(<<"ping">>)
  /\ started.invoked = <<"i1", "i2">>
  /\ HandlerlessPaths(ultra["a"]) = {}
  /\ ultra["a"].server = None /\ serving["a"] = NotServing

(* C6 as stated: building an instance that has an operation without a      *)
(* handler throws, before a server is created, an error that holds the     *)
(* operation's path; no table entry is without a handler.                  *)
C6_MissingHandlerNamed ==
  \A m \in Modules :
    /\ (BuiltBy(m) /\ HandlerlessPaths(ultra[m]) # {}) =>
         /\ started.error # NoError
         /\ \E i \in 1..Len(started.error.args) :
              started.error.args[i] \in HandlerlessPaths(ultra[m])
         /\ ultra[m].server = None
         /\ serving[m] = NotServing
    /\ \A i \in 1..Len(serving[m].handlers) :
         serving[m].handlers[i].procedure.handlerFunction # None

(* C6 as amended: building an instance that has an operation without a     *)
(* handler throws before a server is created and before any request is     *)
(* served, so no table entry is without a handler; the error is 'Procedure *)
(* handler is not defined', which holds no path (or the conflict error of  *)
(* a duplicated path reached first).                                       *)
C6_MissingHandlerThrows ==
  \A m \in Modules :
    /\ (BuiltBy(m) /\ HandlerlessPaths(ultra[m]) # {}) =>
         /\ \/ started.error = HandlerNotDefined /\ started.error.args = <<>>
            \/ AlreadyExistsNamed(started.error, DuplicatedPaths(ultra[m]))
         /\ ultra[m].server = None
         /\ serving[m] = NotServing
    /\ \A i \in 1..Len(serving[m].handlers) :
         serving[m].handlers[i].procedure.handlerFunction # None

C6_Witness ==
  /\ started.module = "a" /\ ~started.warned
  /\ HandlerlessPaths(ultra["a"]) = {<<"draft">>}
  /\ started.invoked = <<"i1", "i4">>
  /\ started.error = HandlerNotDefined
  /\ ultra["a"].server = None /\ serving["a"] = NotServing

(***************************************************************************)
(* Properties of the middleware and of the context of a call.              *)
(***************************************************************************)
(* The middleware entered during a call, in order. *)
Entered(tr) ==
  LET kept == SelectSeq(tr, LAMBDA e : e.ev = "enter") IN
  [i \in 1..Len(kept) |-> kept[i].who]

(* A sequence without the later occurrences of its elements. *)
FirstOccurrences(seq) ==
  LET keep == {i \in 1..Len(seq) : \A j \in 1..(i - 1) : seq[j] # seq[i]}
      nth(k) == CHOOSE i \in keep : Cardinality({j \in keep : j < i}) = k - 1 IN
  [k \in 1..Cardinality(keep) |-> seq[nth(k)]]

(* The middleware scoped to an initializer of the instance. *)
ScopedTo(u, initializer) == u.initializers[InitializerIndex(u.initializers, initializer)].middlewares

(* The three groups of the table entry, concatenated. *)
Concatenated(u, entry) ==
  u.middlewares \o ScopedTo(u, entry.initializer) \o entry.procedure.middlewares

(* Every derivation step of the call returned: the call got to its chain. *)
Reached(tr) ==
  \A i \in 1..Len(tr) :
    tr[i].ev = "derive" => DeriveValue(tr[i].who, tr[i].context).ok

(* start() built the table of m from the instance as it is now. *)
JustBuilt(m) == BuiltBy(m) /\ started.error = NoError

(* C4 as stated: the middleware of every table entry, and the middleware a *)
(* message call of it enters once its context is derived, are the          *)
(* concatenation global + scoped + own.                                    *)
C4_Concatenation ==
  \A m \in Modules :
    JustBuilt(m) =>
      \A i \in 1..Len(serving[m].handlers) :
        LET entry == serving[m].handlers[i] IN
        /\ entry.middlewares = Concatenated(ultra[m], entry)
        /\ (last.module = m /\ last.entry = "wsClient" /\ last.method = entry.path
              /\ Reached(last.tr))
             => Entered(last.tr) = Concatenated(ultra[m], entry)

(* C4 as amended: the middleware of every table entry, and the middleware  *)
(* message call of it enters once its context is derived, are the          *)
(* concatenation global + scoped + own, each group in registration order,  *)
(* without the later occurrences of a middleware that is in the            *)
(* concatenation more than once.                                           *)
C4_ConcatenationOnce ==
  \A m \in Modules :
    JustBuilt(m) =>
      \A i \in 1..Len(serving[m].handlers) :
        LET entry == serving[m].handlers[i] IN
        /\ entry.middlewares = FirstOccurrences(Concatenated(ultra[m], entry))
        /\ (last.module = m /\ last.entry = "wsClient" /\ last.method = entry.path
              /\ Reached(last.tr))
             => Entered(last.tr) = FirstOccurrences(Concatenated(ultra[m], entry))

C4_Witness ==
  /\ JustBuilt("a")
  /\ ultra["a"].middlewares = <<"m2", "m1">>
  /\ ultra["a"].initializers = <<[initializer |-> "i1", middlewares |-> <<"m3", "m1">>]>>
  /\ last.entry = "wsClient" /\ last.method = <<"ping">>
  /\ Entered(last.tr) = <<"m2", "m1", "m3">>
  /\ last.client = Returned(Str("hello"))

(* The derivation steps called during a call, in order. *)
Derived(tr) == SelectSeq(tr, LAMBDA e : e.ev = "derive")

(* The context a step leaves: every key of its result overrides. *)
Merged(context, result) ==
  [k \in CtxKeys |-> IF result[k] # Absent THEN result[k] ELSE context[k]]

(* C7: the derivation steps of a call are called one at a time in          *)
(* registration order, the first with the base context and each next one   *)
(* with the context of the one before merged with its result, later values *)
(* overriding; every middleware and the handler of the call get the        *)
(* context the last step leaves.                                           *)
C7_DeriveSequential ==
  \A m \in Modules :
    (last.module = m /\ last.entry \in {"wsClient", "httpClient"}) =>
      LET steps == Derived(last.tr)
          rest == SelectSeq(last.tr, LAMBDA e : e.ev # "derive")
          base == IF last.entry = "wsClient" THEN WSContext ELSE HTTPContext
          result(k) == DeriveValue(steps[k].who, steps[k].context) IN
      /\ Len(steps) <= Len(ultra[m].derived)
      /\ \A k \in 1..Len(steps) :
           /\ steps[k].who = ultra[m].derived[k]
           /\ last.tr[k] = steps[k]
           /\ steps[k].context = IF k = 1 THEN base
                                 ELSE Merged(steps[k - 1].context, result(k - 1).v)
           /\ k < Len(steps) => result(k).ok
      /\ (steps # <<>> /\ Len(steps) < Len(ultra[m].derived)) => ~result(Len(steps)).ok
      /\ (steps # <<>> /\ ~result(Len(steps)).ok) => rest = <<>>
      /\ \A i \in 1..Len(rest) :
           rest[i].context = IF steps = <<>> THEN base
                             ELSE Merged(steps[Len(steps)].context, result(Len(steps)).v)
      /\ (ultra[m].derived # <<>>) => steps # <<>>

C7_Witness ==
  /\ ultra["a"].derived = <<"dAuth", "dRole">>
  /\ last.entry = "wsClient" /\ last.method = <<"ping">>
  /\ Len(Derived(last.tr)) = 2
  /\ Derived(last.tr)[2].context["auth"] = "yes"
  /\ Derived(last.tr)[2].context["role"] = "user"
  /\ \E i \in 1..Len(last.tr) :
       /\ last.tr[i].ev = "handler"
       /\ last.tr[i].context["role"] = "admin"
       /\ last.tr[i].context["auth"] = "yes"
  /\ \E i \in 1..Len(last.tr) : last.tr[i].ev = "enter" /\ last.tr[i].context["role"] = "admin"

(***************************************************************************)
(* Properties of the two entries and of their clients.                     *)
(***************************************************************************)
(* The request is served by the route of a procedure, not by '/*'. *)
Routed(sv, request) == RouteIndex(sv.routes, request.httpPath, request.method) # 0

(* C8: a procedure that has a route and is called through the HTTP client  *)
(* settles the caller's promise as the same call through the WebSocket     *)
(* client does, and each of the two calls runs the handler exactly once    *)
(* when its context is derived.                                            *)
C8_SameResult ==
  \A m \in Modules :
    (last.module = m /\ last.entry = "httpClient" /\ last.request # NoRequest
       /\ Routed(serving[m], last.request)) =>
      \A ws \in {WSCall(ultra[m].derived, serving[m], last.method, last.params)} :
        /\ last.client = ws.client
        /\ Reached(last.tr) => Cardinality(HandlerEvents(last.tr)) = 1
        /\ Reached(ws.tr) => Cardinality(HandlerEvents(ws.tr)) = 1

(* C9: a message that is one valid envelope is answered by exactly one     *)
(* frame, which parses and carries the envelope's id: the 404 'Not found'  *)
(* error with no handler run when the method is not in the table, an error *)
(* when the chain throws and a result otherwise.                           *)
C9_OneResponse ==
  \A m \in Modules :
    (last.module = m /\ last.entry = "ws" /\ last.message.wellformed
       /\ ~last.message.isArray /\ isRPC(last.message.items[1])) =>
      LET rpc == last.message.items[1]
          known == HandlerIndex(serving[m].handlers, rpc.method) # 0 IN
      /\ Len(last.sent) = 1
      /\ last.sent[1].wellformed
      /\ last.sent[1].id = rpc.id
      /\ ~known => /\ last.sent[1].isError
                   /\ last.sent[1].code = 404
                   /\ last.sent[1].message = "Not found"
                   /\ HandlerEvents(last.tr) = {}
      /\ known => (last.sent[1].isError <=> "error" \in Range(last.emitted))

(* C10: a request served by the route of a procedure never gets to the     *)
(* server's error hook; when parsing its body throws, an 'error' event is  *)
(* emitted and the response is the conversion of what was thrown.          *)
C10_NothingEscapes ==
  \A m \in Modules :
    (last.module = m /\ last.entry = "http" /\ Routed(serving[m], last.request)) =>
      /\ ~last.escaped
      /\ "unhandled:error" \notin Range(last.emitted)
      /\ ~ParseInput(last.request).ok =>
           /\ "error" \in Range(last.emitted)
           /\ last.response = toHTTPResponse(ParseInput(last.request).v)

(***************************************************************************)
(* Properties of next(): not called, and called more than once.            *)
(***************************************************************************)
(* The places of the chain held by a middleware of the kind. *)
OfKind(mws, kind) == {i \in 1..Len(mws) : MwKind(mws[i]) = kind}

(* Two to the power n. *)
RECURSIVE Pow2(_)
Pow2(n) == IF n = 0 THEN 1 ELSE 2 * Pow2(n - 1)

(* C13: when a middleware of the chain returns without calling next(), no  *)
(* middleware after it, no validation and no handler runs in the call, and *)
(* the call returns that middleware's own value.                           *)
C13_ShortCircuit ==
  (pres.via # None /\ pres.err = NoError /\ OfKind(proc.middlewares, "skip") # {}) =>
    LET first == CHOOSE i \in OfKind(proc.middlewares, "skip") :
                   \A j \in OfKind(proc.middlewares, "skip") : i <= j IN
    /\ \A j \in (first + 1)..Len(proc.middlewares) :
         Count(pres.tr, "enter", proc.middlewares[j]) = 0
    /\ \A i \in 1..Len(pres.tr) : pres.tr[i].ev \notin {"validate", "handler"}
    /\ Count(pres.tr, "enter", proc.middlewares[first]) >= 1
    /\ pres.out = Returned(UnauthorizedError)

(* C14: in a chain where no middleware returns without next() and the call *)
(* returns, every next() call of a middleware that calls it two times runs *)
(* the whole chain below it: the middleware at place j is entered once for *)
(* every combination of the calls above it, and so is the handler.         *)
C14_NextAgain ==
  (pres.via # None /\ pres.err = NoError /\ pres.out.ok
     /\ OfKind(proc.middlewares, "skip") = {}) =>
    LET above(j) == Cardinality({i \in OfKind(proc.middlewares, "twice") : i < j}) IN
    /\ \A j \in 1..Len(proc.middlewares) :
         Count(pres.tr, "enter", proc.middlewares[j]) = Pow2(above(j))
    /\ Cardinality(HandlerEvents(pres.tr)) = Pow2(above(Len(proc.middlewares) + 1))

(***************************************************************************)
(* Properties of the response conversions.                                 *)
(***************************************************************************)
(* C15: toHTTPResponse returns a Response as it is, turns an UltraError    *)
(* into its status with the body {error: {name, message}}, any other Error *)
(* into the generic 500, undefined and the empty string into an empty 204  *)
(* (null into that or into a 200) and every other value into a 200 that    *)
(* carries it.                                                             *)
C15_Priority ==
  conv.op = "http" =>
    LET data == conv.data
        r == conv.response IN
    CASE data.t = "Response" ->
           r.status = data.n /\ r.statusText = data.name /\ r.body = Str(data.s)
      [] data.t = "UltraError" ->
           /\ r.status = data.n
           /\ r.type = ApplicationJSON
           /\ r.body = Obj("{\"error\":{\"name\":\"" \o data.name \o "\",\"message\":\""
                           \o data.s \o "\"}}")
           /\ r.body # Str("Internal Server Error")
      [] data.t = "Error" -> r.status = 500 /\ r.body = Str("Internal Server Error")
      [] data.t = "undefined" \/ data = Str("") -> r.status = 204 /\ r.body = Null
      [] data.t = "null" -> r.status \in {200, 204}
      [] data.t = "object" -> r.status = 200 /\ r.body = data
      [] OTHER -> r.status = 200 /\ r.body = Str(ToStr(data))

(* C16: toRPCResponse gives a frame that parses and carries the id: an     *)
(* error with the status of an UltraError, 500 for any other Error, the    *)
(* status and statusText of a Response, each with the message; a result    *)
(* that is the value for objects, numbers and booleans and its string form *)
(* for every other value.                                                  *)
C16_Envelope ==
  conv.op = "rpc" =>
    LET data == conv.data
        f == conv.frame IN
    /\ f.wellformed /\ f.id = conv.id
    /\ f.isError <=> data.t \in {"UltraError", "Error", "Response"}
    /\ f.isError => f.result = Undefined
    /\ ~f.isError => f.code = 0 /\ f.message = ""
    /\ data.t = "UltraError" => f.code = data.n /\ f.message = data.s
    /\ data.t = "Error" => f.code = 500 /\ f.message = data.s
    /\ data.t = "Response" => f.code = data.n /\ f.message = data.name
    /\ data.t \in {"object", "null", "number", "boolean"} => f.result = data
    /\ data.t \in {"undefined", "string", "bigint"} => f.result = Str(ToStr(data))

C16_Witness ==
  /\ conv.op = "rpc" /\ conv.id = <<"a", "\"", "b">>
  /\ conv.data = ValidationError("nope")
  /\ conv.frame = ErrorFrame(<<"a", "\"", "b">>, 422, "nope")

(***************************************************************************)
(* Properties of sign and unsign.                                          *)
(***************************************************************************)
(* C17: unsign of what sign returned, with the secret it was signed with,  *)
(* returns the value; with another secret, or when the signature or the    *)
(* payload was changed or the signature cut off, it returns null; it never *)
(* throws.                                                                 *)
C17_RoundTrip ==
  crypto.op = "unsign" =>
    /\ crypto.result.ok
    /\ (crypto.tampered = None /\ crypto.with = crypto.secret)
         => crypto.result = Returned(Str(crypto.value))
    /\ (crypto.with # crypto.secret
          \/ crypto.tampered \in {"signature", "longer", "cut"}
          \/ (crypto.tampered = "payload" /\ crypto.value # <<"b">>))
         => crypto.result = Returned(Null)

(***************************************************************************)
(* Properties of the CORS middleware.                                      *)
(***************************************************************************)
(* C20: every response to a request from an allowed origin carries         *)
(* Access-Control-Allow-Origin with that origin and the configured         *)
(* headers, whatever the chain below the CORS middleware did.              *)
C20_CorsAlways ==
  (cors.origin \in CorsConfig.origin) =>
    /\ cors.headers["Access-Control-Allow-Origin"] = cors.origin
    /\ cors.headers["Access-Control-Allow-Methods"] = "GET, POST"
    /\ cors.headers["Access-Control-Allow-Headers"] = "X-Test"
    /\ cors.headers["Access-Control-Expose-Headers"] = "X-Expose"
    /\ cors.headers["Access-Control-Allow-Credentials"] = "true"
    /\ cors.headers["Access-Control-Max-Age"] = "99"

(***************************************************************************)
(* Properties of exposure.                                                 *)
(***************************************************************************)
(* The paths of the operations of the instance that have exposure enabled. *)
ExposedPaths(u) ==
  LET ops == Operations(u, 1) IN
  {ops[i].path : i \in {i \in 1..Len(ops) : ops[i].p.httpOptions.enabled}}

RoutePaths(sv) == {sv.routes[i].path : i \in 1..Len(sv.routes)}

(* The routes of a successful build are those of the exposed operations,   *)
(* each a key of the dispatch table.                                       *)
RoutesOfExposed(m) ==
  /\ RoutePaths(serving[m]) = ExposedPaths(ultra[m])
  /\ \A path \in RoutePaths(serving[m]) : HasPath(serving[m].handlers, path)

(* C18 as stated: after a successful build there is a route for a path     *)
(* exactly when its operation has exposure enabled, every route path is a  *)
(* key of the dispatch table, and the request/reply listener is on if and  *)
(* only if at least one compiled operation is exposed.                     *)
C18_ListenerIffExposed ==
  \A m \in Apps :
    (BuiltBy(m) /\ started.error = NoError) =>
      /\ RoutesOfExposed(m)
      /\ serving[m].hasRoutes <=> ExposedPaths(ultra[m]) # {}

(* C18: after a successful build there is a route for a path exactly when  *)
(* its operation has exposure enabled, every route path is a key of the    *)
(* dispatch table, and the request/reply listener is on if and only if at  *)
(* least one compiled operation is exposed or the module was constructed   *)
(* with http.enableByDefault.                                              *)
C18_Exposure ==
  \A m \in Apps :
    (BuiltBy(m) /\ started.error = NoError) =>
      /\ RoutesOfExposed(m)
      /\ serving[m].hasRoutes <=>
           (ExposedPaths(ultra[m]) # {} \/ ultra[m].options.enableByDefault)

(* Constructed with http.enableByDefault, one procedure that opted out:    *)
(* no procedure route, and a request is answered by the listener.          *)
C18_Witness ==
  /\ ultra["a"].options.enableByDefault
  /\ ultra["a"].initializers = <<[initializer |-> "i5", middlewares |-> <<>>]>>
  /\ BuiltBy("a") /\ serving["a"].running /\ serving["a"].routes = <<>>
  /\ HasPath(serving["a"].handlers, <<"off">>)
  /\ last.entry = "http" /\ last.response.status = 404

(* Constructed without the option, procedures registered, one exposed. *)
C18_WitnessLazy ==
  /\ ~ultra["a"].options.enableByDefault
  /\ BuiltBy("a") /\ serving["a"].running /\ serving["a"].hasRoutes
  /\ RoutePaths(serving["a"]) = {<<"ping">>}
  /\ HasPath(serving["a"].handlers, <<"users", "list">>)

(***************************************************************************)
(* Properties of the invocations in flight.                                *)
(***************************************************************************)
InFlight(t) == t \in 1..Len(loop.tasks) /\ loop.tasks[t].state # "done"

Awaiting(t) == t \in 1..Len(loop.tasks) /\ loop.tasks[t].state = "awaiting"

Replied(t) ==
  /\ t \in 1..Len(loop.tasks) /\ loop.tasks[t].state = "done"
  /\ loop.tasks[t].entry = "ws" =>
       \E i \in 1..Len(loop.sent) : loop.sent[i].id = loop.tasks[t].id

(* The ids of the frames sent, in the order they were sent. *)
SentIds == [i \in 1..Len(loop.sent) |-> loop.sent[i].id]

(* C11: every envelope of a batch whose handler completes is answered,     *)
(* whatever the handlers of the other envelopes of the batch do (one that  *)
(* never completes included).                                              *)
C11_Independent == \A t \in 1..MaxTasks : Awaiting(t) ~> Replied(t)

(* The first envelope of a batch of three never completes; the third was   *)
(* answered before the second.                                             *)
C11_Witness ==
  /\ Len(loop.tasks) = 3
  /\ \A t \in 1..3 : loop.tasks[t].arrival = 1 /\ loop.tasks[t].entry = "ws"
  /\ loop.tasks[1].state = "never"
  /\ Replied(2) /\ Replied(3)
  /\ SentIds = <<<<"3">>, <<"2">>>>

(* C12: an invocation in flight finds in its context the value its own     *)
(* middleware wrote there (none, if it wrote none), never one written by   *)
(* another invocation, and the result it returns is the one it read.       *)
C12_OwnContext ==
  \A t \in 1..Len(loop.tasks) :
    LET task == loop.tasks[t]
        written == IF task.method = <<"whoami">> THEN task.input.s ELSE Absent IN
    /\ InFlight(t) => loop.objects[task.context]["role"] = written
    /\ ~InFlight(t) => task.result = Str(written)

(***************************************************************************)
(* Properties of the connection upgrade.                                   *)
(***************************************************************************)
(* The upgrade derivation steps called, in the order of the calls. *)
UpgradeStepsRun(tr) ==
  LET ran == SelectSeq(tr, LAMBDA e : e.ev = "deriveUpgrade") IN
  [i \in 1..Len(ran) |-> ran[i].who]

(* The value of a key in the left-to-right shallow merge of the parts the  *)
(* steps returned: that of the last step that has the key.                 *)
MergedKey(steps, context, part, k) ==
  LET has == {i \in 1..Len(steps) : DeriveUpgradeValue(steps[i], context).v[part][k] # Absent} IN
  IF has = {} THEN Absent
  ELSE DeriveUpgradeValue(steps[CHOOSE i \in has : \A j \in has : j <= i], context).v[part][k]

(* The context the upgrade steps were called with. *)
UpgradeContext(m) == DerivedContext(ultra[m].derived, HTTPContext).context

C19_WitnessRejected ==
  /\ last.module = "a" /\ last.entry = "upgrade"
  /\ last.upgrade.called /\ ~last.upgrade.upgraded
  /\ ultra["a"].derivedUpgrade # <<>>
  /\ last.response.status = 500

(* The upgrade derivation steps called, with what each was handed. *)
UpgradeCalls(tr) == SelectSeq(tr, LAMBDA e : e.ev = "deriveUpgrade")

(* C31: an upgrade derivation step is handed what the steps before it      *)
(* produced: every data key and every header the earlier steps set is      *)
(* there, with its merged value, in what step k is called with.            *)
C31_UpgradeStepsSee ==
  \A m \in Apps :
    (last.module = m /\ last.entry = "upgrade") =>
      \A i \in 1..Len(UpgradeCalls(last.tr)) :
        /\ \A k \in DataKeys :
             LET before == MergedKey(SubSeq(UpgradeStepsRun(last.tr), 1, i - 1),
                                     UpgradeContext(m), "data", k) IN
             before # Absent =>
               (k \in DOMAIN UpgradeCalls(last.tr)[i].context
                  /\ UpgradeCalls(last.tr)[i].context[k] = before)
        /\ \A k \in UpgradeHeaderKeys :
             LET before == MergedKey(SubSeq(UpgradeStepsRun(last.tr), 1, i - 1),
                                     UpgradeContext(m), "headers", k) IN
             before # Absent =>
               (k \in DOMAIN UpgradeCalls(last.tr)[i].context
                  /\ UpgradeCalls(last.tr)[i].context[k] = before)
(***************************************************************************)
(* Properties of batches and of messages that are not envelopes.           *)
(***************************************************************************)
(* The envelopes of a message, by position. *)
Envelopes(message) ==
  IF ~message.wellformed THEN <<>>
  ELSE IF message.isArray
       THEN LET at == {i \in 1..Len(message.items) : isRPC(message.items[i])} IN
            [n \in 1..Cardinality(at) |->
               message.items[CHOOSE i \in at : Cardinality({j \in at : j <= i}) = n]]
       ELSE IF isRPC(message.items[1]) THEN <<message.items[1]>> ELSE <<>>

(* The invocations a served request or message holds. *)
Invocations(observed) ==
  IF observed.entry = "http" THEN 1 ELSE Len(Envelopes(observed.message))

(* C21: while serving a request or a message whose derivation steps all     *)
(* return, each derivation step of the module is called once per           *)
(* invocation: once for a request, once for each envelope of a message.    *)
C21_DerivePerInvocation ==
  \A m \in Apps :
    (last.module = m /\ last.entry \in {"http", "ws"} /\ Reached(last.tr)) =>
      \A derive \in Range(ultra[m].derived) :
        Count(last.tr, "derive", derive) = Invocations(last)

(* C22: a message that does not parse, or parses to a value that is        *)
(* neither an envelope nor an array, runs nothing and sends nothing, and   *)
(* no exception leaves the message handler; for an array whose context     *)
(* derivation returns, one frame is sent for each envelope of the array,   *)
(* in their order and with their ids, and for nothing else in the array,   *)
(* and the handler of each envelope whose method is in the table runs.     *)
C22_MalformedDropped ==
  \A m \in Apps :
    (last.module = m /\ last.entry = "ws") =>
      LET rpcs == Envelopes(last.message)
          known == {i \in 1..Len(rpcs) : HasPath(serving[m].handlers, rpcs[i].method)} IN
      /\ rpcs = <<>> => last.sent = <<>> /\ last.tr = <<>> /\ ~last.escaped
      /\ (last.message.wellformed /\ last.message.isArray /\ Reached(last.tr)) =>
           /\ ~last.escaped
           /\ Len(last.sent) = Len(rpcs)
           /\ \A i \in 1..Len(rpcs) : last.sent[i].id = rpcs[i].id
           /\ \A i \in 1..Len(rpcs) : i \notin known => last.sent[i].code = 404
           /\ Cardinality(HandlerEvents(last.tr)) = Cardinality(known)

(* An array of a value without method, an envelope, a value that is no     *)
(* object and an envelope of an unknown method: the handler ran once and   *)
(* two frames were sent.                                                   *)
C22_Witness ==
  /\ last.module = "a" /\ last.entry = "ws" /\ last.message.isArray
  /\ Len(last.message.items) = 4 /\ Len(Envelopes(last.message)) = 2
  /\ ultra["a"].derived # <<>> /\ Reached(last.tr)
  /\ Cardinality(HandlerEvents(last.tr)) = 1
  /\ Len(last.sent) = 2 /\ ~last.sent[1].isError /\ last.sent[2].code = 404

(***************************************************************************)
(* Properties of the middleware scoped to an initializer.                  *)
(***************************************************************************)
(* The place of an element in a sequence that holds it. *)
Pos(seq, x) == CHOOSE i \in 1..Len(seq) : seq[i] = x

(* The middleware of a table entry are those of its three groups, those    *)
(* scoped to its initializer among them, and a call of the entry enters    *)
(* them in the order of the entry.                                         *)
ScopedOnlyToOwn(m, entry) ==
  /\ Range(ScopedTo(ultra[m], entry.initializer)) \subseteq Range(entry.middlewares)
  /\ Range(entry.middlewares) \subseteq
       Range(ultra[m].middlewares) \cup Range(ScopedTo(ultra[m], entry.initializer))
         \cup Range(entry.procedure.middlewares)
  /\ NoDuplicates(entry.middlewares)
  /\ (last.module = m /\ last.entry = "wsClient" /\ last.method = entry.path)
       => Entered(last.tr) = entry.middlewares

(* C23 as stated: the middleware scoped to an initializer run for every    *)
(* operation of that initializer and for no operation of another, after    *)
(* every global middleware and before every middleware of the operation.   *)
C23_ScopedBetween ==
  \A m \in Apps :
    JustBuilt(m) =>
      \A i \in 1..Len(serving[m].handlers) :
        LET entry == serving[m].handlers[i]
            mws == entry.middlewares IN
        /\ ScopedOnlyToOwn(m, entry)
        /\ \A w \in Range(ScopedTo(ultra[m], entry.initializer)) :
             /\ \A g \in Range(ultra[m].middlewares) \ {w} : Pos(mws, g) < Pos(mws, w)
             /\ \A o \in Range(entry.procedure.middlewares) \ {w} : Pos(mws, w) < Pos(mws, o)

(* C23 as amended: the middleware scoped to an initializer run for every   *)
(* operation of that initializer and for no operation of another; one that *)
(* is not a global middleware too runs after every global middleware and   *)
(* before every middleware of the operation that is in no earlier group,   *)
(* and one that is a global middleware too runs once, at its place among   *)
(* the global middleware.                                                  *)
C23_ScopedBetweenOnce ==
  \A m \in Apps :
    JustBuilt(m) =>
      \A i \in 1..Len(serving[m].handlers) :
        LET entry == serving[m].handlers[i]
            mws == entry.middlewares
            global == ultra[m].middlewares IN
        /\ ScopedOnlyToOwn(m, entry)
        /\ \A w \in Range(ScopedTo(ultra[m], entry.initializer)) :
             IF w \in Range(global) THEN Pos(mws, w) = Pos(global, w)
             ELSE /\ \A g \in Range(global) : Pos(mws, g) < Pos(mws, w)
                  /\ \A o \in Range(entry.procedure.middlewares) \ Range(global) :
                       o # w => Pos(mws, w) < Pos(mws, o)

(* The plugin's initializer i1, scoped to m3 and m1, was merged into the   *)
(* application, which has its own initializer i5 and the global middleware *)
(* m2: a call of i1's ping enters m2, m3, m1, and i5's entry holds neither *)
(* m3 nor m1.                                                              *)
C23_Witness ==
  /\ JustBuilt("a") /\ <<"a", "b">> \in uses
  /\ ultra["b"].initializers = <<[initializer |-> "i1", middlewares |-> <<"m3", "m1">>]>>
  /\ ultra["a"].middlewares = <<"m2">>
  /\ \E i \in 1..Len(serving["a"].handlers) :
       /\ serving["a"].handlers[i].initializer = "i5"
       /\ serving["a"].handlers[i].middlewares = <<"m2">>
  /\ last.entry = "wsClient" /\ last.method = <<"ping">>
  /\ Entered(last.tr) = <<"m2", "m3", "m1">>

(***************************************************************************)
(* Properties of start() on a running instance.                            *)
(***************************************************************************)
(* C24: a start() of an instance whose server is running invokes no        *)
(* initializer, notifies no 'server:started' listener and leaves the       *)
(* instance, its dispatch table and its routes as they are.                *)
C24_StartOnce ==
  [][\A m \in Apps :
       (ultra[m].server # None /\ Start(m)) =>
         /\ started'.warned
         /\ started'.invoked = <<>> /\ started'.notified = <<>>
         /\ ultra' = ultra /\ serving' = serving]_vars

(* start() was called on the running application, which has an            *)
(* initializer and a 'server:started' listener and was changed since it    *)
(* was started.                                                            *)
C24_Witness ==
  /\ started.module = "a" /\ started.warned
  /\ serving["a"].running
  /\ ultra["a"].events # <<>>
  /\ Len(ultra["a"].initializers) > Len(serving["a"].handlers)

(***************************************************************************)
(* Properties of the dispatch table of a running instance.                 *)
(***************************************************************************)
(* C25: no step taken while an instance is running (a builder call on it   *)
(* or on a module it incorporated, a call served) changes its dispatch     *)
(* table, the middleware of its entries or its routes, and a call served   *)
(* enters the middleware of the entry of the table as it was built.        *)
C25_TableFrozen ==
  [][\A m \in Apps :
       serving[m].running =>
         /\ serving'[m].handlers = serving[m].handlers
         /\ serving'[m].routes = serving[m].routes
         /\ serving'[m].notFoundMiddlewares = serving[m].notFoundMiddlewares
         /\ (last'.module = m /\ last'.entry = "wsClient"
               /\ HasPath(serving[m].handlers, last'.method) /\ Reached(last'.tr))
              => Entered(last'.tr) =
                   serving[m].handlers[HandlerIndex(serving[m].handlers, last'.method)].middlewares]_vars

(* After its start the application got the global middleware m1 and the    *)
(* plugin b: a call of ping enters ping's own middleware only.             *)
C25_Witness ==
  /\ serving["a"].running /\ serving["a"].notFoundMiddlewares = <<>>
  /\ ultra["a"].middlewares = <<"m1">> /\ <<"a", "b">> \in uses
  /\ Len(ultra["a"].initializers) = 1
  /\ last.module = "a" /\ last.entry = "wsClient" /\ last.method = <<"ping">>
  /\ Entered(last.tr) = <<"m2">>

(***************************************************************************)
(* Properties of the WebSocket client.                                     *)
(***************************************************************************)
MadeCalls(c) == 1..c.made

(* C26: a frame that arrives settles no call but the pending one whose id  *)
(* it carries (a frame with the id of no pending call, or one that is no   *)
(* JSON, leaves every promise as it was), and the resolve and reject of a  *)
(* call are called at most once between them.                              *)
C26_SettledById ==
  [][/\ \A n \in MadeCalls(client') : client'.promises[n].settles <= 1
     /\ \A frame \in ClientFrames :
          Receive(frame) =>
            \A n \in MadeCalls(client) :
              client'.promises[n] # client.promises[n] =>
                /\ frame.wellformed
                /\ frame.id = makeId(n)
                /\ client.promises[n].state = "pending"
                /\ client'.promises[n].state # "pending"]_vars

(* A frame with the id of no outstanding request was passed over while a   *)
(* request was outstanding, one call was resolved by the frame with its    *)
(* id, and another is still pending.                                       *)
C26_Witness ==
  /\ client.passedOver
  /\ \E n \in MadeCalls(client) : client.promises[n].state = "resolved"
  /\ \E n \in MadeCalls(client) : client.promises[n].state = "pending"

Outstanding(n) == n <= client.made /\ client.promises[n].state = "pending"

SettledCall(n) == n <= client.made /\ client.promises[n].state # "pending"

(* What a promise of the client is settled with: the result or the error   *)
(* of a response, nothing (the timeout), or 'WebSocket is not open'.       *)
SettledAsSaid(promise) ==
  \/ promise.state = "pending"
  \/ promise.state = "resolved" /\ promise.value = Str(<<"o", "k">>)
  \/ promise.state = "rejected"
       /\ promise.value \in {RPCError(404, "Not found"), Undefined, Str("WebSocket is not open")}

(* C27: every call that was made settles in the end, with the result or    *)
(* the error of a response, by its timeout, or because the socket is not   *)
(* open.                                                                   *)
C27_Settles ==
  /\ \A n \in 1..MaxClientCalls : Outstanding(n) ~> SettledCall(n)
  /\ [](\A n \in MadeCalls(client) : SettledAsSaid(client.promises[n]))

(* The four ways are taken: one call was resolved, one was rejected by     *)
(* its timeout, one because the socket is not open.                        *)
C27_Witness ==
  /\ \E n \in MadeCalls(client) : client.promises[n].state = "resolved"
  /\ \E n \in MadeCalls(client) :
       client.promises[n] = [state |-> "rejected", value |-> Undefined, settles |-> 1]
  /\ \E n \in MadeCalls(client) :
       client.promises[n].state = "rejected"
         /\ client.promises[n].value = Str("WebSocket is not open")

(* A request that send left in `requests` when it rejected the others,     *)
(* with its timer still set, was rejected by its timeout.                  *)
C27_WitnessPassedBy ==
  /\ client.made >= 2
  /\ client.promises[1].value = Str("WebSocket is not open")
  /\ client.promises[2] = [state |-> "rejected", value |-> Undefined, settles |-> 1]
  /\ client.sent = <<>>

(* C28: when a call has settled and no call is outstanding, none of the    *)
(* 'message' listeners the client registered is left on the socket.        *)
C28_NoListenerLeft ==
  (client.made >= 1 /\ \A n \in MadeCalls(client) : SettledCall(n))
    => client.socket.message = 0

(* The ids of the envelopes handed to socket.send so far, in order. *)
RECURSIVE SentIdsOf(_)
SentIdsOf(sent) ==
  IF sent = <<>> THEN <<>>
  ELSE [i \in 1..Len(sent[1].items) |-> sent[1].items[i].id] \o SentIdsOf(Tail(sent))

(* The ids of the requests that wait to be transmitted, in order. *)
Queued(c) ==
  LET fresh == SelectSeq(c.requests, LAMBDA r : ~r.pending) IN
  [i \in 1..Len(fresh) |-> fresh[i].id]

ValidToken(token, secret, nowSeconds) ==
  /\ Len(token) = 3
  /\ \A i \in 1..3 : token[i] # EmptyPart
  /\ token[3] = JWTSignature(secret, token[1], token[2])
  /\ token[2].json.hasExp => token[2].json.exp > nowSeconds
  /\ token[2].json.hasNbf => token[2].json.nbf <= nowSeconds

(* C30: verifyJWT(token, secret) does not throw, and it returns the        *)
(* decoded header and payload exactly when the token has three non-empty   *)
(* parts, the signature is the HMAC of the first two parts under the       *)
(* secret, exp (if present) is greater than the current second and nbf (if *)
(* present) is not; otherwise it returns null.                             *)
C30_VerifyJWT ==
  jwt.op = "verify" =>
    /\ jwt.result.ok
    /\ IF ValidToken(jwt.token, jwt.with, jwt.nowSeconds)
       THEN jwt.result.v = JWT(jwt.token[1].json, jwt.token[2].json)
       ELSE jwt.result.v = NoJWT

(***************************************************************************)
(* Properties of incorporation.                                            *)
(***************************************************************************)
(* Any two elements of `child`, one before the other, are in `parent` in   *)
(* that order.                                                             *)
OrderKept(child, parent) ==
  \A i, j \in 1..Len(child) :
    i < j => /\ child[i] \in Range(parent) /\ child[j] \in Range(parent)
             /\ Pos(parent, child[i]) < Pos(parent, child[j])

(* The same, but for the later elements that `held` has. *)
OrderKeptButHeld(child, parent, held) ==
  \A i, j \in 1..Len(child) :
    (i < j /\ child[j] \notin Range(held)) =>
      /\ child[i] \in Range(parent) /\ child[j] \in Range(parent)
      /\ Pos(parent, child[i]) < Pos(parent, child[j])

(* What a module holds keeps its place; a table that is built has the      *)
(* global middleware of the module in the order the module holds them; a   *)
(* call enters the middleware of its entry in the order of the entry, its  *)
(* context derived by the steps of the module in the order it holds them.  *)
PlacesKept ==
  /\ \A m \in Modules :
       /\ OrderKept(ultra[m].middlewares, ultra'[m].middlewares)
       /\ OrderKept(ultra[m].derived, ultra'[m].derived)
  /\ \A m \in Apps :
       (Start(m) /\ ultra[m].server = None /\ serving'[m].running) =>
         \A i \in 1..Len(serving'[m].handlers) :
           OrderKept(ultra[m].middlewares, serving'[m].handlers[i].middlewares)
  /\ \A m \in Apps :
       (last'.module = m /\ last'.entry = "wsClient" /\ Reached(last'.tr)) =>
         /\ \A i \in 1..Len(serving[m].handlers) :
              serving[m].handlers[i].path = last'.method =>
                Entered(last'.tr) = serving[m].handlers[i].middlewares
         /\ [i \in 1..Len(Derived(last'.tr)) |-> Derived(last'.tr)[i].who] = ultra[m].derived

C32_WitnessHeld ==
  /\ <<"a", "b">> \in uses
  /\ ultra["b"].middlewares = <<"m1", "m2">>
  /\ ultra["a"].middlewares = <<"m2", "m1">>

(***************************************************************************)
(* Properties of the lifecycle.                                            *)
(***************************************************************************)
(* declaring, compiled (serving) or stopped *)
Phase(u, sv) ==
  IF u.server = None THEN "declaring" ELSE IF sv.running THEN "compiled" ELSE "stopped"

(* C33: an instance goes from declaring to compiled to stopped and stays   *)
(* stopped; 'server:started' and 'server:stopped' are emitted at most once *)
(* each, in that order; stop() before start() and stop() of a stopped      *)
(* instance change nothing and emit nothing; start() after stop() does not *)
(* serve again.                                                            *)
C33_Lifecycle ==
  [][\A m \in Apps :
       /\ <<Phase(ultra[m], serving[m]), Phase(ultra'[m], serving'[m])>> \in
            {<<"declaring", "declaring">>, <<"declaring", "compiled">>,
             <<"compiled", "compiled">>, <<"compiled", "stopped">>,
             <<"stopped", "stopped">>}
       /\ serving'[m].emitted \in
            {<<>>, <<"server:started">>, <<"server:started", "server:stopped">>}
       /\ (Stop(m) /\ Phase(ultra[m], serving[m]) \in {"declaring", "stopped"}) =>
            (ultra' = ultra /\ serving' = serving)
       /\ (Start(m) /\ Phase(ultra[m], serving[m]) = "stopped") =>
            (~serving'[m].running /\ serving'[m].emitted = serving[m].emitted)]_vars

(***************************************************************************)
(* Properties of the sessions.                                             *)
(***************************************************************************)
(* What commit() of the session ses is said to do to the map, after the    *)
(* sweep of its store if one is due.                                       *)
CommitAsSaid(ses, map, now) ==
  LET swept == maybeSweep(map, ses.lastSweepAt, now).map IN
  IF ses.sessionState = {} /\ ses.sessionIdFromClient # NoId
  THEN [swept EXCEPT ![ses.sessionIdFromClient] = NoEntry]
  ELSE IF ses.sessionIdFromClient # NoId /\ ses.sessionId # ses.sessionIdFromClient
       THEN [swept EXCEPT ![ses.sessionIdFromClient] = NoEntry,
                          ![ses.sessionId] = StoreEntry(ses.sessionState, now)]
       ELSE IF ses.modified
            THEN [swept EXCEPT ![ses.sessionId] = StoreEntry(ses.sessionState, now)]
            ELSE [swept EXCEPT ![ses.sessionId] =
                                  IF @.present THEN StoreEntry(@.data, now) ELSE @]

(* C34: commit() of an empty session of an id the client presented         *)
(* destroys the entry of that id and writes nothing; otherwise commit() of *)
(* a session regenerated from an id the client presented destroys the old  *)
(* entry and writes the state under the new id; otherwise the state is     *)
(* written if it was modified and only touched if not.  After any commit   *)
(* the store holds no entry under an id that regenerate() replaced.        *)
C34_Commit ==
  [][\A s \in Slots :
       SessionCommit(s) =>
         /\ session'.memoryStore =
              CommitAsSaid(session.invocations[s], session.memoryStore, session.now)
         /\ \A sessionId \in session'.replaced :
              ~session'.memoryStore[sessionId].present]_vars

(* Whether the session that slot s holds after the step was read under     *)
(* sessionId, with the state the store held under it.                      *)
ReadsUnder(s, sessionId) ==
  /\ session'.invocations[s].sessionId = sessionId
  /\ session.memoryStore[sessionId].present
  /\ session'.invocations[s].sessionState = session.memoryStore[sessionId].data

(* C35: after an invocation regenerated the session and its commit wrote   *)
(* the state under the new id, the next invocation of the client reads     *)
(* that state: over HTTP with the cookie of that response, and for a later *)
(* message on the same WebSocket connection.                               *)
C35_ReadsRegenerated ==
  [][\A s \in Slots :
       /\ (/\ SessionHTTP(s)
           /\ session.regenerated.http.sessionId # NoId
           /\ session.cookie = session.regenerated.http.cookie
           /\ session.memoryStore[session.regenerated.http.sessionId].present) =>
            ReadsUnder(s, session.regenerated.http.sessionId)
       /\ (/\ SessionWS(s)
           /\ session.regenerated.ws.sessionId # NoId
           /\ session.memoryStore[session.regenerated.ws.sessionId].present) =>
            ReadsUnder(s, session.regenerated.ws.sessionId)]_vars

(* An entry whose last write or touch is older than the time to live and   *)
(* one sweep interval.                                                     *)
Overdue(entry, now) == entry.present /\ now - entry.touched > ttlMs + sweepIntervalMs

(* C36: read(id), as the session module calls it, never gives the data of  *)
(* an entry that is overdue, and such entries are swept from the map.      *)
C36_Expiry ==
  [][\A s \in Slots :
       (SessionHTTP(s) \/ SessionWS(s)) =>
         /\ Overdue(session.memoryStore[session'.invocations[s].sessionId], session.now) =>
              ~session'.invocations[s].found
         /\ \A sessionId \in SessionIds :
              ~Overdue(session'.memoryStore[sessionId], session.now)]_vars

(* C37: when send(retry) finds the socket not open after retryCount        *)
(* retries, every request that is in the queue then is rejected with       *)
(* 'WebSocket is not open', no timeout of them is left and the queue is    *)
(* empty; no retry beyond the retryCount-th is scheduled.                  *)
C37_NotOpen ==
  [][/\ (RetryTimerFires(retryCount) /\ ~client.socket.open /\ client.requests # <<>>) =>
          /\ client'.requests = <<>>
          /\ \A i \in 1..Len(client.requests) :
               /\ client'.promises[client.requests[i].call].state = "rejected"
               /\ client'.promises[client.requests[i].call].value =
                    Str("WebSocket is not open")
     /\ DOMAIN client'.retries = 0..retryCount]_vars

(***************************************************************************)
(* Properties of use(module).                                              *)
(***************************************************************************)
(* A declaration is made on instance m in this step. *)
Declares(m) ==
  \/ \E c \in UseRoutes : Routes(m, c[1], c[2])
  \/ UseMiddleware(m, "m1")
  \/ Derive(m, "dAuth")
  \/ DeriveUpgrade(m, "uSession")
  \/ \E listener \in Listeners : On(m, listener)

(* The paths of a dispatch table. *)
PathsOf(handlers) == {handlers[i].path : i \in 1..Len(handlers)}

(* C38: A.use(B) is a copy made once that changes only A: B's              *)
(* initializers, scoped and global middleware, derive and upgrade steps    *)
(* and listeners stay as they are; a declaration made on an instance       *)
(* afterwards changes that instance alone, so that what is added to A      *)
(* does not show in B and what is added to B is not in the table that      *)
(* start() of A compiles.                                                  *)
C38_UseCopies ==
  [][/\ ultra' # ultra =>
          \E m \in Modules :
            /\ \A k \in Modules \ {m} : ultra'[k] = ultra[k]
            /\ \/ Declares(m)
               \/ Start(m)
               \/ \E n \in Modules :
                    UseModule(m, n) /\ ultra'[m] = UltraMerge(ultra[m], ultra[n])
     /\ \A m \in Apps :
          (~serving[m].running /\ serving'[m].running) =>
            serving'[m].handlers = Build(ultra[m]).handlers]_vars

(* a incorporated b, which declared i1; then a added scoped middleware to  *)
(* i1 and b declared i5; a was started and serves i1 with the middleware   *)
(* and nothing of i5, and b holds i1 without it.                           *)
C38_Witness ==
  /\ uses = {<<"a", "b">>}
  /\ ultra["b"].initializers =
       <<[initializer |-> "i1", middlewares |-> <<>>],
         [initializer |-> "i5", middlewares |-> <<>>]>>
  /\ ultra["a"].initializers = <<[initializer |-> "i1", middlewares |-> <<"m3">>]>>
  /\ serving["a"].running
  /\ PathsOf(serving["a"].handlers) = {<<"ping">>, <<"users", "list">>}

(***************************************************************************)
(* Properties of the message entry.                                        *)
(***************************************************************************)
(* The last call was a message call of m for a method of its table, and    *)
(* the handler of the method was run.                                      *)
Dispatches(m) ==
  (last.module = m /\ last.entry = "wsClient" /\ HasPath(serving[m].handlers, last.method)) =>
    \E i \in 1..Len(last.tr) : last.tr[i].ev = "handler"

(* C39: when the server of an application is started, the route of the     *)
(* connection upgrade is registered and a message for an operation of the  *)
(* dispatch table is dispatched to it, whether or not any operation is     *)
(* exposed over request/reply.                                             *)
C39_MessageEntry ==
  \A m \in Apps : serving[m].running => (serving[m].hasRoutes /\ Dispatches(m))

====
